---- MODULE Spec2Model ----
(***************************************************************************)
(* A model of parts of otterdog: the pull request status mapping of the    *)
(* webhook service and its persistence, the Repository model object        *)
(* (field masking for diffs, validation, branch protection rules) and the  *)
(* repository workflow settings (validation, live patch generation); the   *)
(* REST client and its Requester, the handlers of ApplyOperation, the      *)
(* installations and tasks of the webapp's database service, the tasks     *)
(* that validate and import pull requests, the import, canonical-diff and  *)
(* fetch operations of the command line, and the web settings client.      *)
(*                                                                         *)
(* Python values are modelled as strings: the booleans True / False are    *)
(* "true" / "false", None is "null" and the UNSET sentinel is "unset".     *)
(* A call that may raise yields a record [raised, value]: raised is        *)
(* "none" when the call returns value, else the exception's type.          *)
(***************************************************************************)
EXTENDS Integers, Sequences, FiniteSets, TLC

VARIABLES
    pull_requests,   \* the pull_requests collection: a set of PullRequestModel documents
    pr_call,         \* the last call made to the pull request code, with its outcome
    repo,            \* a Repository model object (the expected side of a diff)
    current_repo,    \* the Repository on the live side of a diff
    org_settings,    \* the OrganizationSettings of the parent organization
    context,         \* the ValidationContext: the failures added so far
    patches,         \* the LivePatch values handed to the handler so far
    wf_expected,     \* a RepositoryWorkflowSettings object (the expected side)
    wf_current,      \* the RepositoryWorkflowSettings of the live side, or "null"
    root_workflows,  \* the organization's workflow settings (context.root_object)
    pc,              \* which operation has acted on the objects above
    server,          \* the responses GitHub gives to the next requests, in order
    requests,        \* the HTTP requests sent through Requester.request_raw so far
    rest_call,       \* the last call made to the RestClient / Requester, with its outcome
    paging,          \* the loop state of a running Requester.request_paged_json
    provider_calls,  \* the calls ApplyOperation has made on its provider client
    live,            \* the live organization on GitHub: settings, webhooks, repositories
    installations,   \* the installations collection: github_id -> InstallationModel
    configurations,  \* the github ids that have a stored ConfigurationModel
    app_installations, \* what GitHub lists as the installations of the app
    background_tasks,  \* the tasks handed to current_app.add_background_task so far
    tasks,           \* the tasks collection: the TaskModel documents saved so far
    validation,      \* a ValidatePullRequestTask: its position and what it has done
    fetch_all,       \* a FetchAllPullRequestsTask: the pull requests listed and its outcome
    callers,         \* the tasks calling update_or_create_pull_request side by side
    cli,             \* a run of a command line operation: files, prompt, calls, exit code
    installation_event, \* the last installation event handled, with the collection before it
    web_page         \* the browser page of the web UI transport and the actions on it

vars == <<pull_requests, pr_call, repo, current_repo, org_settings, context,
          patches, wf_expected, wf_current, root_workflows, pc,
          server, requests, rest_call, paging, provider_calls, live,
          installations, configurations, app_installations, background_tasks,
          tasks, validation, fetch_all, callers, cli, installation_event, web_page>>

prVars == <<pull_requests, pr_call>>
repoVars == <<repo, current_repo, org_settings>>
wfVars == <<wf_expected, wf_current, root_workflows>>
providerVars == <<server, requests, rest_call, paging, provider_calls, live>>
serviceVars == <<installations, configurations, app_installations, background_tasks, tasks, validation, fetch_all, callers, cli, installation_event, web_page>>

\* No request sent, no call made: the provider side while other code is checked.
IdleProvider ==
    /\ server = <<>> /\ requests = <<>> /\ provider_calls = <<>>
    /\ rest_call = [op |-> "none"] /\ paging = [op |-> "none"]
    /\ live = [organization |-> "none"]

otherVars == <<fetch_all, callers, cli, installation_event, web_page>>

\* No other task, no command run, no page open.
IdleOther ==
    /\ fetch_all = [task |-> "none"] /\ callers = <<>>
    /\ cli = [operation |-> "none"] /\ web_page = [url |-> "none"]
    /\ installation_event = [action |-> "none"]

\* Empty collections, nothing scheduled, no command run, no page open: the
\* webhook service, the command line and the web UI while other code is checked.
IdleService ==
    /\ installations = <<>> /\ configurations = {} /\ app_installations = <<>>
    /\ background_tasks = <<>> /\ tasks = <<>>
    /\ validation = [task |-> "none"]
    /\ IdleOther

Returned(v) == [raised |-> "none", value |-> v]
Raised(e) == [raised |-> e, value |-> "none"]

OptionalBool == {"true", "false", "null"}

(***************************************************************************)
(* Pull requests: webapp/webhook/github_models.py, webapp/db/service.py    *)
(***************************************************************************)

MaxPullRequestNumber == 2

\* The PullRequest payloads a webhook or the REST API may deliver. state is
\* any string (a str field), merged is Optional[bool].
PullRequest ==
    [number : 1..MaxPullRequestNumber,
     state  : {"open", "closed", "locked"},
     merged : OptionalBool,
     draft  : {"true", "false"}]

get_pr_status_closed_if_not_false(pr) ==
    IF pr.state = "open" THEN Returned(pr.state)
    ELSE IF pr.state = "closed"
         THEN IF pr.merged = "false" THEN Returned("closed") ELSE Returned("merged")
         ELSE Raised("RuntimeError")

get_pr_status(pr) ==
    IF pr.state = "open" THEN Returned(pr.state)
    ELSE IF pr.state = "closed"
         THEN IF pr.merged = "true" THEN Returned("merged") ELSE Returned("closed")
         ELSE Raised("RuntimeError")

\* str.upper() on the strings get_pr_status returns.
upper(s) ==
    CASE s = "open" -> "OPEN"
      [] s = "closed" -> "CLOSED"
      [] s = "merged" -> "MERGED"
      [] OTHER -> s

\* The member names of the PullRequestStatus enum.
PullRequestStatus == {"OPEN", "CLOSED", "MERGED"}

\* PullRequestStatus[name]: an Enum is subscripted by member name, and the
\* names are case sensitive; a string that names no member is a KeyError.
PullRequestStatus_getitem(name) ==
    IF name \in PullRequestStatus THEN Returned(name) ELSE Raised("KeyError")

ApplyStatus == {"NOT_APPLIED", "FAILED", "COMPLETED"}

Owners == {"org"}
RepoNames == {".otterdog"}

find_pull_request(owner, repo_name, number) ==
    {m \in pull_requests :
        m.org_id = owner /\ m.repo_name = repo_name /\ m.pull_request = number}

\* odm.save: the document replaces the stored one with its id, or is added.
save(collection, doc) == {m \in collection : m.id # doc.id} \cup {doc}

NewId(collection) == Cardinality(collection) + 1

\* The fields of a fresh PullRequestModel that the constructor call does not give.
NewPullRequestModel(id, owner, repo_name, pr, status) ==
    [id |-> id, org_id |-> owner, repo_name |-> repo_name, pull_request |-> pr.number,
     draft |-> pr.draft, status |-> status, apply_status |-> "NOT_APPLIED",
     valid |-> "null", in_sync |-> "null", requires_manual_apply |-> "false"]

SetIfNotNull(model, fld, v) == IF v # "null" THEN [model EXCEPT ![fld] = v] ELSE model

update_or_create_pull_request(owner, repo_name, pr, valid, in_sync, requires_manual_apply, apply_status) ==
    LET status == get_pr_status(pr)
        pull_request_status ==
            IF status.raised = "none" THEN PullRequestStatus_getitem(status.value)
            ELSE status
        found == find_pull_request(owner, repo_name, pr.number)
        pr_model ==
            IF found = {}
            THEN NewPullRequestModel(NewId(pull_requests), owner, repo_name, pr,
                                     pull_request_status.value)
            ELSE LET m == CHOOSE m \in found : \A o \in found : m.id <= o.id
                 IN [m EXCEPT !.draft = pr.draft, !.status = pull_request_status.value]
        updated ==
            SetIfNotNull(SetIfNotNull(SetIfNotNull(SetIfNotNull(pr_model,
                "apply_status", apply_status), "valid", valid), "in_sync", in_sync),
                "requires_manual_apply", requires_manual_apply)
    IN  /\ pr_call' = [op |-> "update_or_create_pull_request", pr |-> pr,
                       raised |-> pull_request_status.raised,
                       value |-> pull_request_status.value]
        /\ pull_requests' = IF pull_request_status.raised = "none"
                            THEN save(pull_requests, updated)
                            ELSE pull_requests

\* A call of PullRequest.get_pr_status by a webhook handler or a task.
GetPrStatus ==
    \E pr \in PullRequest :
        /\ pr_call' = [op |-> "get_pr_status", pr |-> pr,
                       raised |-> get_pr_status(pr).raised,
                       value |-> get_pr_status(pr).value]
        /\ UNCHANGED <<providerVars, serviceVars, pull_requests, repoVars, wfVars, context, patches, pc>>

UpdateOrCreatePullRequest ==
    \E pr \in PullRequest, valid \in OptionalBool, in_sync \in OptionalBool,
       requires_manual_apply \in OptionalBool, apply_status \in ApplyStatus \cup {"null"} :
        \E owner \in Owners, repo_name \in RepoNames :
            /\ update_or_create_pull_request(owner, repo_name, pr, valid, in_sync,
                                             requires_manual_apply, apply_status)
            /\ UNCHANGED <<providerVars, serviceVars, repoVars, wfVars, context, patches, pc>>

NoCall == [op |-> "none", pr |-> [number |-> 0, state |-> "none", merged |-> "null",
                                   draft |-> "false"],
           raised |-> "none", value |-> "none"]

\* The documents the pull_requests collection may hold when the service starts.
StoredAtStart ==
    {{}} \cup
    {{[id |-> 1, org_id |-> "org", repo_name |-> ".otterdog", pull_request |-> 1,
       draft |-> "false", status |-> s, apply_status |-> a,
       valid |-> "true", in_sync |-> "true", requires_manual_apply |-> "false"]} :
        s \in PullRequestStatus, a \in {"NOT_APPLIED", "COMPLETED"}}

IdlePR == pull_requests = {} /\ pr_call = NoCall

(***************************************************************************)
(* Repository: models/repository.py                                        *)
(***************************************************************************)

\* The attributes of the Repository dataclass, branch_protection_rules aside.
RepositoryFields ==
    {"name", "description", "homepage", "private", "has_issues", "has_projects",
     "has_wiki", "default_branch", "allow_rebase_merge", "allow_merge_commit",
     "allow_squash_merge", "allow_auto_merge", "delete_branch_on_merge",
     "allow_update_branch", "squash_merge_commit_title",
     "squash_merge_commit_message", "merge_commit_title", "merge_commit_message",
     "archived", "allow_forking", "web_commit_signoff_required", "secret_scanning",
     "secret_scanning_push_protection", "dependabot_alerts_enabled"}

unavailable_fields_in_archived_repos ==
    {"allow_auto_merge", "allow_merge_commit", "allow_rebase_merge",
     "allow_squash_merge", "allow_update_branch", "delete_branch_on_merge",
     "merge_commit_message", "merge_commit_title", "squash_merge_commit_message",
     "squash_merge_commit_title", "dependabot_alerts_enabled"}

Repository_include_field_ignoring_archived(self, field) ==
    IF field = "secret_scanning" /\ self.private = "true" THEN FALSE
    ELSE TRUE

Repository_include_field_for_diff_computation(self, field) ==
    IF field = "secret_scanning" /\ self.private = "true" THEN FALSE
    ELSE IF self.archived = "true"
         THEN IF field \in unavailable_fields_in_archived_repos THEN FALSE ELSE TRUE
         ELSE TRUE

Change(expected, current) == [expected |-> expected, current |-> current]

\* ModelObject.get_difference_from: the fields set on both sides that differ
\* and that both sides include in the diff computation. The key (name) pairs
\* the two objects and is not diffed.
Repository_get_difference_from(self, other) ==
    LET differing ==
            {f \in RepositoryFields \ {"name"} :
                /\ Repository_include_field_for_diff_computation(self, f)
                /\ Repository_include_field_for_diff_computation(other, f)
                /\ self[f] # "unset"
                /\ other[f] # "unset"
                /\ self[f] # other[f]}
    IN [f \in differing |-> Change(self[f], other[f])]

\* The differ's step for a repository present on both sides: a CHANGE patch
\* if and only if the difference is not empty.
GenerateRepositoryPatch ==
    /\ pc = "loaded"
    /\ LET changes == Repository_get_difference_from(repo, current_repo)
       IN patches' = IF DOMAIN changes # {}
                     THEN Append(patches, [patch_type |-> "CHANGE", changes |-> changes])
                     ELSE patches
    /\ pc' = "patched"
    /\ UNCHANGED <<providerVars, serviceVars, prVars, repoVars, wfVars, context>>

\* ValidationContext.add_failure; the rule stands for the failure's message.
Failure(type, rule) == [type |-> type, rule |-> rule]

\* The failures Repository.validate adds for the repository itself, in the
\* order of the code, before it validates its branch protection rules.
Repository_validate_truthy(self, settings) ==
    LET free_plan == settings.plan = "free"
        org_web_commit_signoff_required == settings.web_commit_signoff_required = "true"
        org_members_cannot_fork_private_repositories ==
            settings.members_can_fork_private_repositories = "false"
        is_private == self.private \notin {"false", "null"}
        is_public == self.private = "false"
        allow_forking == self.allow_forking \notin {"false", "null"}
        disallow_forking == self.allow_forking = "false"
        has_wiki == self.has_wiki \notin {"false", "null"}
        repo_web_commit_signoff_not_required ==
            self.web_commit_signoff_required \notin {"true", "unset"}
    IN  (IF is_public /\ disallow_forking
         THEN <<Failure("WARNING", "public_repo_disallows_forking")>> ELSE <<>>)
        \o (IF is_private /\ has_wiki /\ free_plan
            THEN <<Failure("WARNING", "private_repo_has_wiki_on_free_plan")>> ELSE <<>>)
        \o (IF is_private /\ org_members_cannot_fork_private_repositories /\ allow_forking
            THEN <<Failure("ERROR", "private_repo_allows_forking")>> ELSE <<>>)
        \o (IF repo_web_commit_signoff_not_required /\ org_web_commit_signoff_required
            THEN <<Failure("ERROR", "web_commit_signoff_not_required")>> ELSE <<>>)

Repository_validate_org_not_allowing(self, settings) ==
    LET free_plan == settings.plan = "free"
        org_web_commit_signoff_required == settings.web_commit_signoff_required = "true"
        org_members_cannot_fork_private_repositories ==
            settings.members_can_fork_private_repositories # "true"
        is_private == self.private = "true"
        is_public == self.private = "false"
        allow_forking == self.allow_forking = "true"
        disallow_forking == self.allow_forking = "false"
        has_wiki == self.has_wiki = "true"
        repo_web_commit_signoff_not_required == self.web_commit_signoff_required = "false"
    IN  (IF is_public /\ disallow_forking
         THEN <<Failure("WARNING", "public_repo_disallows_forking")>> ELSE <<>>)
        \o (IF is_private /\ has_wiki /\ free_plan
            THEN <<Failure("WARNING", "private_repo_has_wiki_on_free_plan")>> ELSE <<>>)
        \o (IF is_private /\ org_members_cannot_fork_private_repositories /\ allow_forking
            THEN <<Failure("ERROR", "private_repo_allows_forking")>> ELSE <<>>)
        \o (IF repo_web_commit_signoff_not_required /\ org_web_commit_signoff_required
            THEN <<Failure("ERROR", "web_commit_signoff_not_required")>> ELSE <<>>)

Repository_validate(self, settings) ==
    LET free_plan == settings.plan = "free"
        org_web_commit_signoff_required == settings.web_commit_signoff_required = "true"
        org_members_cannot_fork_private_repositories ==
            settings.members_can_fork_private_repositories = "false"
        is_private == self.private = "true"
        is_public == self.private = "false"
        allow_forking == self.allow_forking = "true"
        disallow_forking == self.allow_forking = "false"
        has_wiki == self.has_wiki = "true"
        repo_web_commit_signoff_not_required == self.web_commit_signoff_required = "false"
    IN  (IF is_public /\ disallow_forking
         THEN <<Failure("WARNING", "public_repo_disallows_forking")>> ELSE <<>>)
        \o (IF is_private /\ has_wiki /\ free_plan
            THEN <<Failure("WARNING", "private_repo_has_wiki_on_free_plan")>> ELSE <<>>)
        \o (IF is_private /\ org_members_cannot_fork_private_repositories /\ allow_forking
            THEN <<Failure("ERROR", "private_repo_allows_forking")>> ELSE <<>>)
        \o (IF repo_web_commit_signoff_not_required /\ org_web_commit_signoff_required
            THEN <<Failure("ERROR", "web_commit_signoff_not_required")>> ELSE <<>>)

\* What BranchProtectionRule.validate may add for one rule: nothing, or one
\* failure of any type.
BranchProtectionRuleFailures ==
    {<<>>} \cup {<<Failure(t, "branch_protection_rule")>> : t \in {"ERROR", "WARNING"}}

RECURSIVE BranchProtectionRulesFailures(_)
BranchProtectionRulesFailures(n) ==
    IF n = 0 THEN {<<>>}
    ELSE {a \o b : a \in BranchProtectionRulesFailures(n - 1),
                   b \in BranchProtectionRuleFailures}

\* Repository.validate(context, parent_object), parent_object.settings being
\* org_settings.
Validate ==
    /\ pc = "loaded"
    /\ \E of_rules \in BranchProtectionRulesFailures(Len(repo.branch_protection_rules)) :
           context' = context \o Repository_validate(repo, org_settings) \o of_rules
    /\ pc' = "validated"
    /\ UNCHANGED <<providerVars, serviceVars, prVars, repoVars, wfVars, patches>>

MaxRules == 3
MaxValidatedRules == 1
MaxDiffering == 1

Patterns == {"main", "release", "dev"}
RepositoryNames == {"repo-a", "repo-b"}

\* A BranchProtectionRule, reduced to its key.
BranchProtectionRule == [pattern : Patterns]

RECURSIVE SeqsUpTo(_, _)
SeqsUpTo(S, n) ==
    IF n = 0 THEN {<<>>}
    ELSE SeqsUpTo(S, n - 1) \cup
         {Append(q, x) : q \in {r \in SeqsUpTo(S, n - 1) : Len(r) = n - 1}, x \in S}

RECURSIVE SubsetsUpTo(_, _)
SubsetsUpTo(S, n) ==
    IF n = 0 THEN {{}}
    ELSE SubsetsUpTo(S, n - 1) \cup {D \cup {x} : D \in SubsetsUpTo(S, n - 1), x \in S}

\* A Repository object: its attributes and its list of branch protection rules.
MakeRepository(attrs, rules) ==
    [f \in RepositoryFields \cup {"branch_protection_rules"} |->
        IF f = "branch_protection_rules" THEN rules ELSE attrs[f]]

BranchProtectionRule_from_model(x) ==
    [pattern |-> IF "pattern" \in DOMAIN x THEN x.pattern ELSE "unset"]

\* Repository.from_model: every attribute the data lacks is UNSET, and the
\* rules are the data's rules, each mapped, in the data's order.
Repository_from_model(data) ==
    MakeRepository(
        [f \in RepositoryFields |->
            IF f \in DOMAIN data.attrs THEN data.attrs[f] ELSE "unset"],
        IF "branch_protection_rules" \in DOMAIN data.lists
        THEN [i \in 1..Len(data.lists.branch_protection_rules) |->
                 BranchProtectionRule_from_model(data.lists.branch_protection_rules[i])]
        ELSE <<>>)

add_branch_protection_rule(self, rule) ==
    [self EXCEPT !.branch_protection_rules = Append(@, rule)]

set_branch_protection_rules(self, rules) ==
    [self EXCEPT !.branch_protection_rules = rules]

\* The declared data of a repository: its name, and with or without rules.
ModelData ==
    {[attrs |-> [name |-> n], lists |-> <<>>] : n \in RepositoryNames}
    \cup {[attrs |-> [name |-> n], lists |-> [branch_protection_rules |-> rs]] :
            n \in RepositoryNames, rs \in SeqsUpTo(BranchProtectionRule, MaxRules)}

FromModel ==
    /\ pc = "loaded"
    /\ \E data \in ModelData : repo' = Repository_from_model(data)
    /\ UNCHANGED <<providerVars, serviceVars, prVars, current_repo, org_settings, wfVars, context, patches, pc>>

AddBranchProtectionRule ==
    /\ pc = "loaded"
    /\ Len(repo.branch_protection_rules) < MaxRules
    /\ \E rule \in BranchProtectionRule : repo' = add_branch_protection_rule(repo, rule)
    /\ UNCHANGED <<providerVars, serviceVars, prVars, current_repo, org_settings, wfVars, context, patches, pc>>

SetBranchProtectionRules ==
    /\ pc = "loaded"
    /\ \E rules \in SeqsUpTo(BranchProtectionRule, MaxRules) :
           repo' = set_branch_protection_rules(repo, rules)
    /\ UNCHANGED <<providerVars, serviceVars, prVars, current_repo, org_settings, wfVars, context, patches, pc>>

UnsetAttrs == [f \in RepositoryFields |-> "unset"]

NoSettings == [plan |-> "free", web_commit_signoff_required |-> "unset",
               members_can_fork_private_repositories |-> "unset"]

\* None in place of a model object.
NoObject == [model_object_name |-> "None"]

IdleRepo ==
    /\ repo = NoObject
    /\ current_repo = NoObject
    /\ org_settings = NoSettings

AttributeStates == {"true", "false", "unset", "null"}

OrganizationSettings ==
    [plan : {"free", "team"},
     web_commit_signoff_required : {"true", "false", "unset"},
     members_can_fork_private_repositories : {"true", "false", "unset"}]

\* The attributes Repository.validate reads.
ValidatedFields == {"private", "allow_forking", "has_wiki", "web_commit_signoff_required"}

\* The attributes a repository pair may differ in, private and archived aside.
OtherFields == RepositoryFields \ {"name", "private", "archived"}

(***************************************************************************)
(* RepositoryWorkflowSettings: models/repo_workflow_settings.py            *)
(***************************************************************************)

WorkflowSettingsFields == {"enabled", "allowed_actions", "default_workflow_permissions"}

MakeWorkflowSettings(enabled, allowed_actions, default_workflow_permissions) ==
    [model_object_name |-> "repo_workflow_settings", enabled |-> enabled,
     allowed_actions |-> allowed_actions,
     default_workflow_permissions |-> default_workflow_permissions]

\* utils.is_set_and_valid: neither UNSET nor None.
is_set_and_valid(value) == value \notin {"unset", "null"}

\* What WorkflowSettings.validate (the base class) may add: nothing, or one
\* failure of any type.
WorkflowSettingsFailures ==
    {<<>>} \cup {<<Failure(t, "workflow_settings")>> : t \in {"ERROR", "WARNING"}}

RepositoryWorkflowSettings_validate_unguarded(self, org_workflow_settings) ==
    (IF org_workflow_settings.enabled_repositories = "none" /\ self.enabled = "true"
     THEN <<Failure("ERROR", "workflows_enabled")>> ELSE <<>>)
    \o (IF /\ org_workflow_settings.default_workflow_permissions = "read"
           /\ self.default_workflow_permissions = "write"
        THEN <<Failure("ERROR", "default_workflow_permissions")>> ELSE <<>>)

\* The failures RepositoryWorkflowSettings.validate adds after the base class's.
RepositoryWorkflowSettings_validate(self, org_workflow_settings) ==
    IF is_set_and_valid(self.enabled) /\ self.enabled = "true"
    THEN (IF org_workflow_settings.enabled_repositories = "none" /\ self.enabled = "true"
          THEN <<Failure("ERROR", "workflows_enabled")>> ELSE <<>>)
         \o (IF /\ org_workflow_settings.default_workflow_permissions = "read"
                /\ self.default_workflow_permissions = "write"
             THEN <<Failure("ERROR", "default_workflow_permissions")>> ELSE <<>>)
    ELSE <<>>

ValidateWorkflowSettings ==
    /\ pc = "loaded"
    /\ \E of_base \in WorkflowSettingsFailures :
           context' = context \o of_base
                      \o RepositoryWorkflowSettings_validate(wf_expected, root_workflows)
    /\ pc' = "validated"
    /\ UNCHANGED <<providerVars, serviceVars, prVars, repoVars, wfVars, patches>>

\* WorkflowSettings.include_field_for_diff_computation (the base class).
WorkflowSettings_include_field_for_diff_computation(self, field) == TRUE

RepositoryWorkflowSettings_include_field_for_diff_computation(self, field) ==
    IF self.enabled = "false"
    THEN IF field = "enabled" THEN TRUE ELSE FALSE
    ELSE WorkflowSettings_include_field_for_diff_computation(self, field)

RepositoryWorkflowSettings_get_difference_from(self, other) ==
    LET differing ==
            {f \in WorkflowSettingsFields :
                /\ RepositoryWorkflowSettings_include_field_for_diff_computation(self, f)
                /\ RepositoryWorkflowSettings_include_field_for_diff_computation(other, f)
                /\ self[f] # "unset"
                /\ other[f] # "unset"
                /\ self[f] # other[f]}
    IN [f \in differing |-> Change(self[f], other[f])]

modified_workflow_settings_not_forced(expected_object, current_object) ==
    RepositoryWorkflowSettings_get_difference_from(expected_object, current_object)

modified_workflow_settings_always_forced(expected_object, current_object) ==
    LET diff == RepositoryWorkflowSettings_get_difference_from(expected_object,
                                                               current_object)
    IN [f \in DOMAIN diff \cup {"enabled"} |->
           IF f = "enabled"
           THEN Change(expected_object.enabled, expected_object.enabled)
           ELSE diff[f]]

\* The difference generate_live_patch computes, enabled forced into it when
\* allowed_actions is part of it.
modified_workflow_settings(expected_object, current_object) ==
    LET diff == RepositoryWorkflowSettings_get_difference_from(expected_object,
                                                               current_object)
    IN IF "allowed_actions" \in DOMAIN diff
       THEN [f \in DOMAIN diff \cup {"enabled"} |->
                IF f = "enabled"
                THEN Change(expected_object.enabled, expected_object.enabled)
                ELSE diff[f]]
       ELSE diff

of_addition(expected_object) ==
    [patch_type |-> "ADD", expected_object |-> expected_object,
     current_object |-> NoObject, changes |-> <<>>, forced_update |-> FALSE]

of_changes(expected_object, current_object, changes, forced_update) ==
    [patch_type |-> "CHANGE", expected_object |-> expected_object,
     current_object |-> current_object, changes |-> changes,
     forced_update |-> forced_update]

\* The patches RepositoryWorkflowSettings.generate_live_patch hands to the
\* handler, in order.
generate_live_patch(expected_object, current_object) ==
    IF current_object = NoObject
    THEN <<of_addition(expected_object)>>
    ELSE LET modified == modified_workflow_settings(expected_object, current_object)
         IN IF Cardinality(DOMAIN modified) > 0
            THEN <<of_changes(expected_object, current_object, modified, FALSE)>>
            ELSE <<>>

GenerateLivePatch ==
    /\ pc = "loaded"
    /\ patches' = patches \o generate_live_patch(wf_expected, wf_current)
    /\ pc' = "patched"
    /\ UNCHANGED <<providerVars, serviceVars, prVars, repoVars, wfVars, context>>

NoWorkflows == [enabled_repositories |-> "all", default_workflow_permissions |-> "write"]

IdleWf ==
    /\ wf_expected = MakeWorkflowSettings("unset", "unset", "unset")
    /\ wf_current = NoObject
    /\ root_workflows = NoWorkflows

\* The workflow settings a configuration or the provider may give.
RepositoryWorkflowSettings ==
    {MakeWorkflowSettings(e, a, p) :
        e \in {"true", "false", "unset"},
        a \in {"all", "selected", "unset"},
        p \in {"read", "write", "unset"}}

ValidatedWorkflowSettings ==
    {MakeWorkflowSettings(e, a, p) :
        e \in AttributeStates,
        a \in {"all", "selected", "unset"},
        p \in {"read", "write", "unset"}}

OrganizationWorkflowSettings ==
    [enabled_repositories : {"all", "none", "selected"},
     default_workflow_permissions : {"read", "write"}]

(***************************************************************************)
(* providers/github/rest.py: the Requester                                 *)
(*                                                                         *)
(* A dict is a function from its keys to their values, a list a sequence;  *)
(* a dict-typed argument that is None is NoDict.  A url path is the        *)
(* sequence of its segments.  A text is [json_object |-> d] when it is the *)
(* JSON document of the dict d, [json_array |-> l] when it is that of the  *)
(* list l, and [text |-> t] when it is not JSON.  The calls thread an io   *)
(* record [sent, server] (the requests sent so far, the responses GitHub   *)
(* gives to the next ones) and yield [io, result].  A request that finds   *)
(* no response left fails in the transport (ConnectionError).              *)
(***************************************************************************)
MaxResponses == 2
MaxPages == 2

NoDict == [None |-> "None"]
EmptyText == [text |-> ""]
HtmlText == [text |-> "<html>"]

RaisedWith(e, args) == [raised |-> e, value |-> args]

json_dumps(data) == [json_object |-> data]

\* response.json(): the value, and whether it is a dict or a list
Response_json(response) ==
    IF "json_object" \in DOMAIN response.text
    THEN [raised |-> "none", value |-> response.text.json_object, type |-> "dict"]
    ELSE IF "json_array" \in DOMAIN response.text
    THEN [raised |-> "none", value |-> response.text.json_array, type |-> "list"]
    ELSE Raised("JSONDecodeError")

_GH_API_URL_ROOT == "https://api.github.com"

_build_url(url_path) == <<_GH_API_URL_ROOT>> \o url_path

Methods == {"GET", "PATCH", "POST", "PUT", "DELETE"}

IO == [sent |-> requests, server |-> server]

request_raw(io, method, url_path, data, params) ==
    LET request == [method |-> method, url |-> _build_url(url_path),
                    data |-> data, params |-> params]
        sent == Append(io.sent, request)
    IN  IF io.server = <<>>
        THEN [io |-> [sent |-> sent, server |-> <<>>], result |-> Raised("ConnectionError")]
        ELSE [io |-> [sent |-> sent, server |-> Tail(io.server)],
              result |-> Returned([status_code |-> Head(io.server).status_code,
                                   text |-> Head(io.server).text,
                                   url |-> request.url])]

_create_exception_undistinguished(response) ==
    RaisedWith("GitHubException",
               [url |-> response.url, status |-> response.status_code, data |-> response.text])

_create_exception(response) ==
    LET args == [url |-> response.url, status |-> response.status_code, data |-> response.text]
    IN  IF response.status_code = 401
        THEN RaisedWith("BadCredentialsException", args)
        ELSE RaisedWith("GitHubException", args)

_check_response(response) ==
    IF response.status_code >= 400 THEN _create_exception(response) ELSE Returned("None")

request_json(io, method, url_path, data, params) ==
    LET input_data == IF data = NoDict THEN NoDict ELSE json_dumps(data)
        raw == request_raw(io, method, url_path, input_data, params)
        checked == _check_response(raw.result.value)
    IN  IF raw.result.raised # "none" THEN raw
        ELSE IF checked.raised # "none" THEN [io |-> raw.io, result |-> checked]
        ELSE [io |-> raw.io, result |-> Response_json(raw.result.value)]

\* query_params = {"per_page": "100", "page": current_page}, then update(params)
query_params(current_page, params) ==
    LET own == [per_page |-> "100", page |-> current_page]
    IN  IF params = NoDict THEN own
        ELSE [k \in DOMAIN own \cup DOMAIN params |->
                 IF k \in DOMAIN params THEN params[k] ELSE own[k]]

\* One pass through the loop of request_paged_json (p.served keeps the
\* responses read so far).
request_paged_json_step(io, p) ==
    LET r == request_json(io, p.method, p.url_path, p.data, query_params(p.current_page, p.params))
    IN  IF r.result.raised # "none"
        THEN [io |-> r.io, result |-> r.result,
              paging |-> [p EXCEPT !.served = @ \o SubSeq(io.server, 1, Len(io.server) - Len(r.io.server))]]
        ELSE [io |-> r.io, result |-> Returned("None"),
              paging |-> IF Len(r.result.value) = 0
                         THEN [p EXCEPT !.current_page = -1,
                                        !.served = Append(@, Head(io.server))]
                         ELSE [p EXCEPT !.current_page = @ + 1,
                                        !.result = @ \o r.result.value,
                                        !.served = Append(@, Head(io.server))]]

(***************************************************************************)
(* providers/github/rest.py: the RestClient verbs                          *)
(***************************************************************************)

\* The exception classes an `except GitHubException` clause catches.
GitHubExceptions == {"GitHubException", "BadCredentialsException"}

\* try: ... except GitHubException as ex: raise RuntimeError(message)
except_GitHubException(r, message) ==
    IF r.result.raised \in GitHubExceptions
    THEN [io |-> r.io, result |-> RaisedWith("RuntimeError", message)]
    ELSE r

Done(io) == [io |-> io, result |-> Returned("None")]

bool(value) == IF value = "true" THEN "true" ELSE "false"

list_security_managers(io, org_id) ==
    LET r == request_json(io, "GET", <<"orgs", org_id, "security-managers">>, NoDict, NoDict)
    IN  IF r.result.raised # "none"
        THEN except_GitHubException(r, "failed retrieving security managers for organization")
        ELSE IF r.result.type = "dict"
        THEN [io |-> r.io,
              result |-> IF DOMAIN r.result.value = {} THEN Returned(<<>>) ELSE Raised("TypeError")]
        ELSE [io |-> r.io,
              result |-> Returned([i \in 1..Len(r.result.value) |-> r.result.value[i].slug])]

add_security_manager_team(io, org_id, team_slug) ==
    LET r == request_raw(io, "PUT", <<"orgs", org_id, "security-managers", "teams", team_slug>>, NoDict, NoDict)
    IN  IF r.result.raised # "none" THEN r
        ELSE IF r.result.value.status_code # 204
        THEN [io |-> r.io, result |-> RaisedWith("RuntimeError", "failed adding security manager team for organization")]
        ELSE Done(r.io)

remove_security_manager_team(io, org_id, team_slug) ==
    LET r == request_raw(io, "DELETE", <<"orgs", org_id, "security-managers", "teams", team_slug>>, NoDict, NoDict)
    IN  IF r.result.raised # "none" THEN r
        ELSE IF r.result.value.status_code # 204
        THEN [io |-> r.io, result |-> RaisedWith("RuntimeError", "failed removing security manager team for organization")]
        ELSE Done(r.io)

\* The first loop of update_security_managers; yields the managers left over.
RECURSIVE add_security_managers(_, _, _, _)
add_security_managers(io, org_id, security_managers, current_managers) ==
    IF security_managers = <<>>
    THEN [io |-> io, result |-> Returned("None"), current_managers |-> current_managers]
    ELSE IF Head(security_managers) \in current_managers
    THEN add_security_managers(io, org_id, Tail(security_managers),
                               current_managers \ {Head(security_managers)})
    ELSE LET r == add_security_manager_team(io, org_id, Head(security_managers))
         IN  IF r.result.raised # "none"
             THEN [io |-> r.io, result |-> r.result, current_managers |-> current_managers]
             ELSE add_security_managers(r.io, org_id, Tail(security_managers), current_managers)

\* The second loop of update_security_managers, over the set in the given order.
RECURSIVE remove_security_managers(_, _, _)
remove_security_managers(io, org_id, team_slugs) ==
    IF team_slugs = <<>> THEN Done(io)
    ELSE LET r == remove_security_manager_team(io, org_id, Head(team_slugs))
         IN  IF r.result.raised # "none" THEN r
             ELSE remove_security_managers(r.io, org_id, Tail(team_slugs))

\* set_order: the order in which this run iterates over a set of team slugs.
update_security_managers(io, org_id, security_managers, set_order) ==
    LET listed == list_security_managers(io, org_id)
        current_managers == {listed.result.value[i] : i \in 1..Len(listed.result.value)}
        added == add_security_managers(listed.io, org_id, security_managers, current_managers)
        in_left(team_slug) == team_slug \in added.current_managers
    IN  IF listed.result.raised # "none" THEN listed
        ELSE IF added.result.raised # "none" THEN [io |-> added.io, result |-> added.result]
        ELSE remove_security_managers(added.io, org_id, SelectSeq(set_order, in_left))

update_org_settings(io, org_id, data, set_order) ==
    LET r == request_json(io, "PATCH", <<"orgs", org_id>>, data, NoDict)
    IN  IF r.result.raised # "none"
        THEN except_GitHubException(r, "failed to update settings for organization")
        ELSE IF "security_managers" \in DOMAIN data
        THEN update_security_managers(r.io, org_id, data["security_managers"], set_order)
        ELSE Done(r.io)

update_webhook(io, org_id, webhook_id, webhook) ==
    LET r == request_json(io, "PATCH", <<"orgs", org_id, "hooks", webhook_id>>, webhook, NoDict)
    IN  IF r.result.raised # "none"
        THEN except_GitHubException(r, "failed to update webhook")
        ELSE Done(r.io)

add_webhook(io, org_id, data) ==
    LET named == [k \in DOMAIN data \cup {"name"} |-> IF k = "name" THEN "web" ELSE data[k]]
        r == request_json(io, "POST", <<"orgs", org_id, "hooks">>, named, NoDict)
    IN  IF r.result.raised # "none"
        THEN except_GitHubException(r, "failed to add webhook with url")
        ELSE Done(r.io)

get_repos(org_id) ==
    [op |-> "get_repos", method |-> "GET", url_path |-> <<"orgs", org_id, "repos">>,
     data |-> [type |-> "all"], params |-> NoDict, current_page |-> 1, result |-> <<>>,
     served |-> <<>>]

_fill_vulnerability_report_for_repo(io, org_id, repo_name, repo_data) ==
    LET r == request_raw(io, "GET", <<"repos", org_id, repo_name, "vulnerability-alerts">>, NoDict, NoDict)
    IN  IF r.result.raised # "none" THEN r
        ELSE [io |-> r.io,
              result |-> Returned([k \in DOMAIN repo_data \cup {"dependabot_alerts_enabled"} |->
                                     IF k = "dependabot_alerts_enabled"
                                     THEN (IF r.result.value.status_code = 204 THEN "true" ELSE "false")
                                     ELSE repo_data[k]])]

get_repo_data(io, org_id, repo_name) ==
    LET r == request_json(io, "GET", <<"repos", org_id, repo_name>>, NoDict, NoDict)
    IN  IF r.result.raised # "none"
        THEN except_GitHubException(r, "failed retrieving data for repo")
        ELSE IF r.result.type = "list"
        THEN LET raw == _fill_vulnerability_report_for_repo(r.io, org_id, repo_name, <<>>)
             IN  IF raw.result.raised # "none" THEN raw
                 ELSE [io |-> raw.io, result |-> Raised("TypeError")]
        ELSE _fill_vulnerability_report_for_repo(r.io, org_id, repo_name, r.result.value)

_update_vulnerability_report_for_repo(io, org_id, repo_name, vulnerability_reports) ==
    LET method == IF vulnerability_reports = "true" THEN "PUT" ELSE "DELETE"
        r == request_raw(io, method, <<"repos", org_id, repo_name, "vulnerability-alerts">>, NoDict, NoDict)
    IN  IF r.result.raised # "none" THEN r
        ELSE IF r.result.value.status_code # 204
        THEN [io |-> r.io, result |-> RaisedWith("RuntimeError", "failed to update vulnerability_reports for repo")]
        ELSE Done(r.io)

update_repo(io, org_id, repo_name, data) ==
    LET changes == Cardinality(DOMAIN data)
        vulnerability_reports ==
            IF "dependabot_alerts_enabled" \in DOMAIN data
            THEN bool(data["dependabot_alerts_enabled"]) ELSE "null"
        popped == [k \in DOMAIN data \ {"dependabot_alerts_enabled"} |-> data[k]]
        patched == IF DOMAIN popped # {}
                   THEN request_json(io, "PATCH", <<"repos", org_id, repo_name>>, popped, NoDict)
                   ELSE Done(io)
    IN  IF changes = 0 THEN Done(io)
        ELSE IF patched.result.raised # "none"
        THEN except_GitHubException(patched, "failed to update settings for repo")
        ELSE IF vulnerability_reports # "null"
        THEN _update_vulnerability_report_for_repo(patched.io, org_id, repo_name, vulnerability_reports)
        ELSE Done(patched.io)

_remove_already_active_settings_keeping_absent(update_data, current_data) ==
    [key \in {k \in DOMAIN update_data : k \notin DOMAIN current_data} |-> update_data[key]]

_remove_already_active_settings(update_data, current_data) ==
    [key \in {k \in DOMAIN update_data :
                 ~(k \in DOMAIN current_data /\ current_data[k] = update_data[k])} |->
        update_data[key]]

TemplateRepository == "otterdog/template"

\* re.split("/", template_repository, 1)
re_split(template_repository) ==
    IF template_repository = TemplateRepository THEN <<"otterdog", "template">>
    ELSE <<template_repository>>

update_keys == {"dependabot_alerts_enabled", "web_commit_signoff_required", "security_and_analysis"}

add_repo(io, org_id, data, template_repository, auto_init_repo) ==
    LET repo_name == data["name"]
        template_owner == re_split(template_repository)[1]
        template_repo == re_split(template_repository)[2]
        template_data == [owner |-> org_id, name |-> repo_name,
                          include_all_branches |-> "false", private |-> "false"]
        generated == request_json(io, "POST", <<"repos", template_owner, template_repo, "generate">>,
                                  template_data, NoDict)
        current_data == get_repo_data(generated.io, org_id, repo_name)
        update_data == [k \in DOMAIN data \cap update_keys |-> data[k]]
        create_data == [k \in (DOMAIN data \ update_keys) \cup {"auto_init"} |->
                           IF k = "auto_init" THEN auto_init_repo ELSE data[k]]
        created == request_json(io, "POST", <<"orgs", org_id, "repos">>, create_data, NoDict)
    IN  IF is_set_and_valid(template_repository)
        THEN IF generated.result.raised # "none"
             THEN except_GitHubException(generated, "failed to create repo from template")
             ELSE IF current_data.result.raised # "none" THEN current_data
             ELSE update_repo(current_data.io, org_id, repo_name,
                              _remove_already_active_settings(data, current_data.result.value))
        ELSE IF created.result.raised # "none"
             THEN except_GitHubException(created, "failed to add repo with name")
             ELSE except_GitHubException(
                      update_repo(created.io, org_id, repo_name,
                                  _remove_already_active_settings(update_data, created.result.value)),
                      "failed to add repo with name")


(***************************************************************************)
(* Calls on the RestClient and on its Requester                            *)
(***************************************************************************)
Organizations == {"org"}
WebhookIds == {"1", "2"}
Urls == {"https://a.example", "https://b.example"}
Teams == {"team-a"}
RepositoryName == "repo-a"

Webhook(url, active, events) ==
    [active |-> active, events |-> events, config |-> [url |-> url, content_type |-> "json"]]

Webhooks == {Webhook(url, active, events) :
                url \in Urls, active \in {"true", "false"}, events \in {<<"push">>, <<"*">>}}

\* All dicts over the keys S with values True / False.
BoolDicts(S) == UNION {[K -> {"true", "false"}] : K \in SUBSET S}

WithKey(d, key, value) == [k \in DOMAIN d \cup {key} |-> IF k = key THEN value ELSE d[k]]

ScalarSettingKeys == {"web_commit_signoff_required", "has_organization_projects"}

\* Organization settings as the differ hands them over: scalars, and
\* possibly the list of security manager teams.
OrgSettingsData ==
    (BoolDicts(ScalarSettingKeys) \ {<<>>})
    \cup {WithKey(d, "security_managers", m) :
             d \in BoolDicts(ScalarSettingKeys), m \in SeqsUpTo(Teams, 1)}

\* The data of a repository: its name and some of its settings.
RepoSettingKeys == {"private", "web_commit_signoff_required", "dependabot_alerts_enabled"}
RepoData == {WithKey(d, "name", RepositoryName) : d \in BoolDicts(RepoSettingKeys)}

\* The orders in which a run may iterate over a set of team slugs.
SetOrders == {s \in SeqsUpTo(Teams, Cardinality(Teams)) :
                 Len(s) = Cardinality(Teams) /\ {s[i] : i \in 1..Len(s)} = Teams}

Response(status_code, text) == [status_code |-> status_code, text |-> text]

ErrorText == [json_object |-> [message |-> "error"]]

ErrorResponses == {Response(401, ErrorText), Response(404, ErrorText), Response(503, ErrorText)}

\* What the server answers to the requests of a Requester.
Responses ==
    {Response(200, [json_object |-> [name |-> RepositoryName]]),
     Response(200, [json_array |-> <<>>]),
     Response(200, HtmlText),
     Response(204, EmptyText)} \cup ErrorResponses

\* What the server answers to the page requests of a listing.
RepoItems == {[name |-> "repo-a"], [name |-> "repo-b"]}
PageResponses ==
    {Response(200, [json_array |-> page]) : page \in SeqsUpTo(RepoItems, 1)}
    \cup {Response(404, ErrorText)}

\* What the server answers while a repository is added: the data of the
\* repository (web_commit_signoff_required is not part of it), 204, an error.
CreatedRepoData == [name |-> RepositoryName, private |-> "false"]
AddRepoResponses ==
    {Response(201, [json_object |-> CreatedRepoData]), Response(204, EmptyText),
     Response(404, ErrorText)}

MaxAddRepoResponses == 5

\* The record of a finished call: the responses it was served, its outcome.
Call(op, args, r) ==
    [op |-> op, args |-> args,
     served |-> SubSeq(server, 1, Len(server) - Len(r.io.server)),
     outcome |-> r.result]

NoRestCall == rest_call.op = "none" /\ paging.op = "none"

Finish(call, r) ==
    /\ rest_call' = call
    /\ requests' = r.io.sent
    /\ server' = r.io.server

coreVars == <<prVars, repoVars, wfVars, context, patches, pc>>

RequestJson ==
    \E method \in Methods, url_path \in {<<"orgs", "org">>, <<"repos", "org", RepositoryName>>},
       data \in {NoDict, [name |-> RepositoryName]}, params \in {NoDict, [ref |-> "main"]} :
        LET r == request_json(IO, method, url_path, data, params)
        IN  /\ NoRestCall
            /\ Finish(Call("request_json", [method |-> method, url_path |-> url_path,
                                            data |-> data, params |-> params], r), r)
            /\ UNCHANGED <<coreVars, serviceVars, paging, provider_calls, live>>

UpdateOrgSettings ==
    \E org_id \in Organizations, data \in OrgSettingsData, set_order \in SetOrders :
        LET r == update_org_settings(IO, org_id, data, set_order)
        IN  /\ NoRestCall
            /\ Finish(Call("update_org_settings", [org_id |-> org_id, data |-> data], r), r)
            /\ UNCHANGED <<coreVars, serviceVars, paging, provider_calls, live>>

UpdateWebhook ==
    \E org_id \in Organizations, webhook_id \in WebhookIds, webhook \in Webhooks :
        LET r == update_webhook(IO, org_id, webhook_id, webhook)
        IN  /\ NoRestCall
            /\ Finish(Call("update_webhook", [org_id |-> org_id, webhook_id |-> webhook_id,
                                              webhook |-> webhook], r), r)
            /\ UNCHANGED <<coreVars, serviceVars, paging, provider_calls, live>>

AddWebhook ==
    \E org_id \in Organizations, data \in Webhooks :
        LET r == add_webhook(IO, org_id, data)
        IN  /\ NoRestCall
            /\ Finish(Call("add_webhook", [org_id |-> org_id, data |-> data], r), r)
            /\ UNCHANGED <<coreVars, serviceVars, paging, provider_calls, live>>

GetRepoData ==
    \E org_id \in Organizations :
        LET r == get_repo_data(IO, org_id, RepositoryName)
        IN  /\ NoRestCall
            /\ Finish(Call("get_repo_data", [org_id |-> org_id, repo_name |-> RepositoryName], r), r)
            /\ UNCHANGED <<coreVars, serviceVars, paging, provider_calls, live>>

UpdateRepo ==
    \E org_id \in Organizations, data \in BoolDicts(RepoSettingKeys) :
        LET r == update_repo(IO, org_id, RepositoryName, data)
        IN  /\ NoRestCall
            /\ Finish(Call("update_repo", [org_id |-> org_id, repo_name |-> RepositoryName,
                                           data |-> data], r), r)
            /\ UNCHANGED <<coreVars, serviceVars, paging, provider_calls, live>>

AddRepo ==
    \E org_id \in Organizations, data \in RepoData,
       template_repository \in {"null", TemplateRepository}, auto_init_repo \in {"true", "false"} :
        LET r == add_repo(IO, org_id, data, template_repository, auto_init_repo)
        IN  /\ NoRestCall
            /\ template_repository # "null" => auto_init_repo = "false"
            /\ Finish(Call("add_repo", [org_id |-> org_id, data |-> data,
                                        template_repository |-> template_repository,
                                        auto_init_repo |-> auto_init_repo], r), r)
            /\ UNCHANGED <<coreVars, serviceVars, paging, provider_calls, live>>

\* RestClient.get_repos enters request_paged_json.
GetRepos ==
    \E org_id \in Organizations :
        /\ NoRestCall
        /\ paging' = get_repos(org_id)
        /\ UNCHANGED <<coreVars, serviceVars, server, requests, rest_call, provider_calls, live>>

\* A caller that passes its params as params enters request_paged_json.
RequestPagedJson ==
    \E params \in {NoDict, [type |-> "all"], [per_page |-> "30"]} :
        /\ NoRestCall
        /\ paging' = [op |-> "request_paged_json", method |-> "GET",
                      url_path |-> <<"orgs", "org", "repos">>, data |-> NoDict,
                      params |-> params, current_page |-> 1, result |-> <<>>,
                      served |-> <<>>]
        /\ UNCHANGED <<coreVars, serviceVars, server, requests, rest_call, provider_calls, live>>

\* One pass through the loop of request_paged_json; the pass that reads an
\* empty page, or that raises, ends the call (get_repos then maps the result
\* to the names, or the GitHubException to a RuntimeError).
RequestPage ==
    LET step == request_paged_json_step(IO, paging)
        names == [i \in 1..Len(step.paging.result) |-> step.paging.result[i].name]
        returned == [io |-> step.io,
                     result |-> IF paging.op = "get_repos"
                                THEN Returned(names) ELSE Returned(step.paging.result)]
        raised == IF paging.op = "get_repos"
                  THEN except_GitHubException(step, "failed to retrieve repos for organization")
                  ELSE step
    IN  /\ paging.op # "none" /\ rest_call.op = "none"
        /\ paging.current_page > 0
        /\ requests' = step.io.sent
        /\ server' = step.io.server
        /\ paging' = step.paging
        /\ rest_call' = IF step.result.raised # "none"
                        THEN [op |-> paging.op, outcome |-> raised.result]
                        ELSE IF step.paging.current_page > 0 THEN rest_call
                        ELSE [op |-> paging.op, outcome |-> returned.result]
        /\ UNCHANGED <<coreVars, serviceVars, provider_calls, live>>


(***************************************************************************)
(* RestClient.update_security_managers against an organization whose       *)
(* security manager teams GitHub lists, and where every PUT and DELETE of  *)
(* a team is answered with 204.                                            *)
(***************************************************************************)
MaxRequestedManagers == 3

ManagerTeams == {"team-a", "team-b", "team-c"}

\* The lists in which GitHub may give the current security manager teams.
ListedManagers ==
    {s \in SeqsUpTo(ManagerTeams, Cardinality(ManagerTeams)) :
        \A i, j \in 1..Len(s) : s[i] = s[j] => i = j}

ManagerSetOrders == {s \in ListedManagers : Len(s) = Cardinality(ManagerTeams)}

\* The responses to PATCH /orgs/{org}, to GET /orgs/{org}/security-managers
\* and to the PUT and DELETE requests that follow.
SecurityManagersScript(listed) ==
    <<Response(200, [json_object |-> [login |-> "org"]]),
      Response(200, [json_array |-> [i \in 1..Len(listed) |-> [slug |-> listed[i]]]])>>
    \o [i \in 1..(MaxRequestedManagers + Cardinality(ManagerTeams)) |-> Response(204, EmptyText)]

\* update_org_settings with a list of security managers in the data.
UpdateSecurityManagers ==
    \E org_id \in Organizations, security_managers \in SeqsUpTo(ManagerTeams, MaxRequestedManagers),
       set_order \in ManagerSetOrders :
        LET data == [security_managers |-> security_managers]
            r == update_org_settings(IO, org_id, data, set_order)
        IN  /\ NoRestCall
            /\ Finish(Call("update_org_settings", [org_id |-> org_id, data |-> data], r), r)
            /\ UNCHANGED <<coreVars, serviceVars, paging, provider_calls, live>>

(***************************************************************************)
(* apply.py: ApplyOperation, the handlers the differ calls in apply mode   *)
(*                                                                         *)
(* A modification map is a function from the modified keys to the pairs    *)
(* <<expected_value, current_value>>.  Each handler yields the calls it     *)
(* makes on its provider client (gh_client), in order.                      *)
(***************************************************************************)
MaxPatches == 1
MaxApplyResponses == 2

handle_modified_settings_current_values(org_id, modified_settings) ==
    <<[verb |-> "update_org_settings", org_id |-> org_id,
       data |-> [key \in DOMAIN modified_settings |-> modified_settings[key][2]]]>>

handle_modified_settings(org_id, modified_settings) ==
    <<[verb |-> "update_org_settings", org_id |-> org_id,
       data |-> [key \in DOMAIN modified_settings |-> modified_settings[key][1]]]>>

handle_modified_webhook_changes_only(org_id, webhook_id, webhook_url, modified_webhook, webhook) ==
    <<[verb |-> "update_webhook", org_id |-> org_id, webhook_id |-> webhook_id,
       webhook |-> [key \in DOMAIN modified_webhook |-> modified_webhook[key][1]]]>>

handle_modified_webhook(org_id, webhook_id, webhook_url, modified_webhook, webhook) ==
    <<[verb |-> "update_webhook", org_id |-> org_id, webhook_id |-> webhook_id,
       webhook |-> webhook]>>

handle_extra_webhook_removing(org_id, webhook) ==
    <<[verb |-> "remove_webhook", org_id |-> org_id, webhook |-> webhook]>>

handle_extra_webhook(org_id, webhook) == <<>>

handle_new_webhook(org_id, data) ==
    <<[verb |-> "add_webhook", org_id |-> org_id, data |-> data]>>

handle_modified_repo(org_id, repo_name, modified_repo) ==
    <<[verb |-> "update_repo", org_id |-> org_id, repo_name |-> repo_name,
       data |-> [key \in DOMAIN modified_repo |-> modified_repo[key][1]]]>>

handle_extra_repo(org_id, repo_data) == <<>>

handle_new_repo(org_id, data) ==
    <<[verb |-> "add_repo", org_id |-> org_id, data |-> data]>>

handle_modified_rule(org_id, repo_name, rule_pattern, rule_id, modified_rule) ==
    <<[verb |-> "update_branch_protection_rule", org_id |-> org_id, repo_name |-> repo_name,
       rule_pattern |-> rule_pattern, rule_id |-> rule_id,
       data |-> [key \in DOMAIN modified_rule |-> modified_rule[key][1]]]>>

handle_extra_rule(org_id, repo_name, repo_id, data) == <<>>

handle_new_rule(org_id, repo_name, repo_id, data) ==
    <<[verb |-> "add_branch_protection_rule", org_id |-> org_id, repo_name |-> repo_name,
       repo_id |-> repo_id, data |-> data]>>

\* What a request does to the organization on GitHub when it is answered
\* with a success status: a PATCH of the organization sets the settings it
\* carries, a PATCH of a webhook sets the fields of the webhook with that id,
\* a POST of a webhook creates one under a new id.
GitHub_effect(org, request, response) ==
    IF response.status_code >= 400 \/ request.data = NoDict THEN org
    ELSE LET payload == request.data.json_object
         IN  IF request.method = "PATCH" /\ Len(request.url) = 3 /\ request.url[2] = "orgs"
             THEN [org EXCEPT !.settings =
                      [k \in DOMAIN @ |-> IF k \in DOMAIN payload THEN payload[k] ELSE @[k]]]
             ELSE IF /\ request.method = "PATCH" /\ Len(request.url) = 5
                     /\ request.url[4] = "hooks" /\ request.url[5] \in DOMAIN org.webhooks
             THEN [org EXCEPT !.webhooks[request.url[5]] =
                      [k \in DOMAIN @ |-> IF k \in DOMAIN payload THEN payload[k] ELSE @[k]]]
             ELSE IF request.method = "POST" /\ Len(request.url) = 4 /\ request.url[4] = "hooks"
             THEN [org EXCEPT !.webhooks =
                      [id \in DOMAIN @ \cup {"new"} |->
                          IF id \in DOMAIN @ THEN @[id]
                          ELSE [k \in DOMAIN payload \ {"name"} |-> payload[k]]]]
             ELSE org

RECURSIVE GitHub_effects(_, _, _)
GitHub_effects(org, sent, served) ==
    IF sent = <<>> \/ served = <<>> THEN org
    ELSE GitHub_effects(GitHub_effect(org, Head(sent), Head(served)), Tail(sent), Tail(served))

\* The organization the differ compared the expected configuration with:
\* webhook "1" is also expected, webhook "2", repository "extra-repo" and the
\* rule "extra/*" of repo-a exist on the live side only.
LiveAtStart ==
    [settings |-> [k \in ScalarSettingKeys |-> "false"],
     webhooks |-> [id \in WebhookIds |->
                      IF id = "1" THEN Webhook("https://a.example", "true", <<"push">>)
                      ELSE Webhook("https://b.example", "true", <<"push">>)],
     repos |-> {RepositoryName, "extra-repo"},
     rules |-> {"main", "extra/*"}]

ExpectedWebhookIds == {"1"}

\* A handler runs: calls are the calls it makes on its provider client and r
\* is what the client does with them (the verbs rest.py defines with the
\* arguments apply.py passes are those of the RestClient; of add_repo and of
\* the branch protection rule verbs only the call is kept).  patches keeps
\* the handler, its arguments, its calls and its outcome.
Handle(handler, args, calls, r) ==
        /\ Len(patches) < MaxPatches
        /\ patches' = Append(patches, [handler |-> handler, args |-> args, calls |-> calls,
                                        outcome |-> r.result])
        /\ provider_calls' = provider_calls \o calls
        /\ requests' = r.io.sent
        /\ server' = r.io.server
        /\ live' = GitHub_effects(live, SubSeq(r.io.sent, Len(requests) + 1, Len(r.io.sent)), server)
        /\ UNCHANGED <<prVars, repoVars, wfVars, context, pc, serviceVars, rest_call, paging>>

\* The modification maps of the organization settings: some scalars whose
\* expected value is not the live one, and possibly the security managers.
ModifiedSettings ==
    LET scalars == {[k \in K |-> <<"true", live.settings[k]>>] : K \in SUBSET ScalarSettingKeys}
    IN  (scalars \ {<<>>})
        \cup {WithKey(m, "security_managers", change) :
                 m \in scalars, change \in {<< <<"team-a">>, <<>> >>, << <<>>, <<"team-a">> >>}}

HandleModifiedSettings ==
    \E org_id \in Organizations, modified_settings \in ModifiedSettings, set_order \in SetOrders :
        LET calls == handle_modified_settings(org_id, modified_settings)
        IN  Handle("handle_modified_settings", [modified_settings |-> modified_settings], calls,
                   update_org_settings(IO, calls[1].org_id, calls[1].data, set_order))

\* The expected webhook has the url of the live webhook it is compared with,
\* and differs from it in active, in events, or in both.
HandleModifiedWebhook ==
    \E org_id \in Organizations, webhook_id \in ExpectedWebhookIds \cap DOMAIN live.webhooks,
       webhook \in Webhooks :
        LET current == live.webhooks[webhook_id]
            modified_webhook == [key \in {k \in {"active", "events"} : webhook[k] # current[k]} |->
                                    <<webhook[key], current[key]>>]
            calls == handle_modified_webhook(org_id, webhook_id, current.config.url,
                                             modified_webhook, webhook)
        IN  /\ webhook.config.url = current.config.url
            /\ DOMAIN modified_webhook # {}
            /\ Handle("handle_modified_webhook",
                      [webhook_id |-> webhook_id, webhook_url |-> current.config.url,
                       modified_webhook |-> modified_webhook, webhook |-> webhook], calls,
                      update_webhook(IO, calls[1].org_id, calls[1].webhook_id, calls[1].webhook))

HandleExtraWebhook ==
    \E org_id \in Organizations, webhook_id \in DOMAIN live.webhooks \ ExpectedWebhookIds :
        Handle("handle_extra_webhook", [webhook |-> live.webhooks[webhook_id]],
               handle_extra_webhook(org_id, live.webhooks[webhook_id]), Done(IO))

HandleNewWebhook ==
    \E org_id \in Organizations, active \in {"true", "false"} :
        LET data == Webhook("https://c.example", active, <<"push">>)
            calls == handle_new_webhook(org_id, data)
        IN  Handle("handle_new_webhook", [data |-> data], calls,
                   add_webhook(IO, calls[1].org_id, calls[1].data))

HandleModifiedRepo ==
    \E org_id \in Organizations, K \in (SUBSET RepoSettingKeys) \ {{}} :
        LET modified_repo == [k \in K |-> <<"true", "false">>]
            calls == handle_modified_repo(org_id, RepositoryName, modified_repo)
        IN  Handle("handle_modified_repo", [repo_name |-> RepositoryName, modified_repo |-> modified_repo],
                   calls, update_repo(IO, calls[1].org_id, calls[1].repo_name, calls[1].data))

HandleExtraRepo ==
    \E org_id \in Organizations :
        Handle("handle_extra_repo", [repo |-> [name |-> "extra-repo"]],
               handle_extra_repo(org_id, [name |-> "extra-repo"]), Done(IO))

HandleNewRepo ==
    \E org_id \in Organizations, private \in {"true", "false"} :
        LET data == [name |-> "new-repo", private |-> private]
        IN  Handle("handle_new_repo", [data |-> data], handle_new_repo(org_id, data), Done(IO))

HandleModifiedRule ==
    \E org_id \in Organizations :
        LET modified_rule == [k \in {"requiresApprovingReviews"} |-> <<"true", "false">>]
        IN  Handle("handle_modified_rule", [rule_pattern |-> "main", modified_rule |-> modified_rule],
                   handle_modified_rule(org_id, RepositoryName, "main", "rule-1", modified_rule), Done(IO))

HandleExtraRule ==
    \E org_id \in Organizations :
        Handle("handle_extra_rule", [data |-> [pattern |-> "extra/*"]],
               handle_extra_rule(org_id, RepositoryName, "repo-id", [pattern |-> "extra/*"]), Done(IO))

HandleNewRule ==
    \E org_id \in Organizations :
        Handle("handle_new_rule", [data |-> [pattern |-> "release/*"]],
               handle_new_rule(org_id, RepositoryName, "repo-id", [pattern |-> "release/*"]), Done(IO))

\* What the server answers to the requests of an apply run.
ApplyResponses ==
    {Response(200, [json_object |-> <<>>]),
     Response(200, [json_array |-> <<[slug |-> "team-a"]>>]),
     Response(204, EmptyText),
     Response(404, ErrorText)}

(***************************************************************************)
(* webapp/db/service.py: installations and tasks                           *)
(*                                                                         *)
(* The installations collection is a function from the github id (the key  *)
(* a save replaces by) to the InstallationModel.  app_installations is the *)
(* list GitHub returns for the app; it changes when organizations install, *)
(* remove, suspend or unsuspend the app.                                   *)
(***************************************************************************)
MaxBackgroundTasks == 4

GithubIds == {"org-a", "org-x"}

\* otterdog_config: org-a is the github id of project-a, org-x is not configured.
organization_names == {"project-a"}
get_project_name(github_id) == IF github_id = "org-a" THEN "project-a" ELSE "null"
get_organization_config(project_name) ==
    [name |-> project_name, github_id |-> "org-a", config_repo |-> ".otterdog",
     base_template |-> "default.libsonnet"]

InstallationId(github_id) == IF github_id = "org-a" THEN 1 ELSE 2

\* The lists GitHub may return: org-a has the app installed, installed and
\* suspended, or not installed; org-x has it installed or not.
AppInstallation(github_id, suspended_at) ==
    [id |-> InstallationId(github_id), account |-> [login |-> github_id],
     suspended_at |-> suspended_at]

AppInstallationLists ==
    {a \o x : a \in {<<>>} \cup {<<AppInstallation("org-a", s)>> : s \in {"null", "2024-01-01"}},
              x \in {<<>>, <<AppInstallation("org-x", "null")>>}}

InstallationModel(installation_id, installation_status, project_name, github_id, config_repo, base_template) ==
    [installation_id |-> installation_id, installation_status |-> installation_status,
     project_name |-> project_name, github_id |-> github_id, config_repo |-> config_repo,
     base_template |-> base_template]

odm_save(collection, model) ==
    [id \in DOMAIN collection \cup {model.github_id} |->
        IF id = model.github_id THEN model ELSE collection[id]]

odm_remove(collection, github_id) ==
    [id \in DOMAIN collection \ {github_id} |-> collection[id]]

\* The first loop of update_installations: a model is saved for every
\* installation of the app.
RECURSIVE save_app_installations(_, _)
save_app_installations(collection, all_installations) ==
    IF all_installations = <<>> THEN collection
    ELSE LET app_installation == Head(all_installations)
             github_id == app_installation.account.login
             project_name == get_project_name(github_id)
             installation_status ==
                 IF app_installation.suspended_at = "null" THEN "INSTALLED" ELSE "SUSPENDED"
             org_config == get_organization_config(project_name)
             model == IF project_name # "null"
                      THEN InstallationModel(app_installation.id, installation_status, project_name,
                                             github_id, org_config.config_repo, org_config.base_template)
                      ELSE InstallationModel(app_installation.id, installation_status, "null",
                                             github_id, "null", "null")
         IN  save_app_installations(odm_save(collection, model), Tail(all_installations))

\* The database part of update_installations (lines 79-141).
update_installations_session(collection, all_installations) ==
    LET installed == {all_installations[i].account.login : i \in 1..Len(all_installations)}
        existing_organizations == DOMAIN collection \ installed
        all_configured_organization_names ==
            organization_names \ {get_project_name(github_id) : github_id \in installed}
        saved == save_app_installations(collection, all_installations)
        \* organizations that have the GitHub App not installed
        processed ==
            [id \in {g \in DOMAIN saved : ~(g \in existing_organizations /\ get_project_name(g) = "null")} |->
                IF id \in existing_organizations
                THEN [saved[id] EXCEPT !.project_name = get_project_name(id),
                                       !.installation_status = "NOT_INSTALLED"]
                ELSE saved[id]]
        \* organizations that are in the config but have the app not installed yet
        not_installed(name) ==
            InstallationModel(0, "NOT_INSTALLED", get_organization_config(name).name,
                              get_organization_config(name).github_id,
                              get_organization_config(name).config_repo,
                              get_organization_config(name).base_template)
    IN  [id \in DOMAIN processed \cup
                {get_organization_config(name).github_id : name \in all_configured_organization_names} |->
            IF \E name \in all_configured_organization_names :
                   get_organization_config(name).github_id = id
            THEN not_installed(get_project_name(id))
            ELSE processed[id]]

get_active_installations(collection) ==
    {id \in DOMAIN collection : collection[id].installation_status = "INSTALLED"}

BackgroundTask(type, installation) ==
    [type |-> type, installation_id |-> installation.installation_id,
     org_id |-> installation.github_id, repo_name |-> installation.config_repo,
     state |-> "scheduled", model |-> 0]

\* The loop of lines 143-167 over the active installations in the order
\* found: the tasks it adds, until the assert on config_repo fails.
RECURSIVE schedule_fetch_tasks(_, _, _)
schedule_fetch_tasks(collection, found, stored) ==
    IF found = <<>> THEN [added |-> <<>>, raised |-> "none"]
    ELSE LET installation == collection[Head(found)]
             rest == schedule_fetch_tasks(collection, Tail(found), stored)
         IN  IF installation.github_id \in stored THEN rest
             ELSE IF installation.config_repo = "null"
             THEN [added |-> <<>>, raised |-> "AssertionError"]
             ELSE [added |-> <<BackgroundTask("FetchConfigTask", installation),
                               BackgroundTask("FetchAllPullRequestsTask", installation)>> \o rest.added,
                   raised |-> rest.raised]

set_installation_status_of_all(collection, installation_id, installation_status) ==
    [id \in DOMAIN collection |-> [collection[id] EXCEPT !.installation_status = installation_status]]

\* find_one(InstallationModel, InstallationModel.installation_id == installation_id)
find_installation(collection, installation_id) ==
    {id \in DOMAIN collection : collection[id].installation_id = installation_id}

set_installation_status(collection, installation_id, installation_status) ==
    [id \in DOMAIN collection |->
        IF id \in find_installation(collection, installation_id)
        THEN [collection[id] EXCEPT !.installation_status = installation_status]
        ELSE collection[id]]

\* The orders in which a find may return the documents ids.
Orders(ids) ==
    {s \in SeqsUpTo(ids, Cardinality(ids)) :
        Len(s) = Cardinality(ids) /\ {s[i] : i \in 1..Len(s)} = ids}

providerAndCore == <<prVars, repoVars, wfVars, context, patches, pc, providerVars>>

\* GitHub's side: an organization installs, removes, suspends or unsuspends the app.
AppInstallationsChange ==
    \E list \in AppInstallationLists :
        /\ list # app_installations
        /\ app_installations' = list
        /\ UNCHANGED <<providerAndCore, installations, configurations, background_tasks,
                       tasks, validation, otherVars>>

\* update_installation_status(installation_id, "created" | "deleted"): update_installations()
UpdateInstallations ==
    LET collection == update_installations_session(installations, app_installations)
    IN  \E found \in Orders(get_active_installations(collection)) :
            LET scheduled == schedule_fetch_tasks(collection, found, configurations)
            IN  /\ Len(background_tasks) + Len(scheduled.added) <= MaxBackgroundTasks
                /\ installations' = collection
                /\ background_tasks' = background_tasks \o scheduled.added
                /\ UNCHANGED <<providerAndCore, configurations, app_installations, tasks, validation, otherVars>>

\* update_installation_status(installation_id, "suspend")
SuspendInstallation ==
    \E installation_id \in {InstallationId(g) : g \in GithubIds} :
        /\ installations' = set_installation_status(installations, installation_id, "SUSPENDED")
        /\ UNCHANGED <<providerAndCore, configurations, app_installations, background_tasks,
                       tasks, validation, otherVars>>

\* update_installation_status(installation_id, "unsuspend")
UnsuspendInstallation ==
    \E installation_id \in {InstallationId(g) : g \in GithubIds} :
        /\ installations' = set_installation_status(installations, installation_id, "INSTALLED")
        /\ UNCHANGED <<providerAndCore, configurations, app_installations, background_tasks,
                       tasks, validation, otherVars>>

\* create_task_model of the task, as create_task saves it.
TaskModel(task) ==
    [type |-> task.type, org_id |-> task.org_id, repo_name |-> task.repo_name,
     pull_request |-> 0, status |-> "CREATED", log |-> "null"]

\* The tasks of one identity: type, organization, repository, pull request.
SameTask(a, b) ==
    a.type = b.type /\ a.org_id = b.org_id /\ a.repo_name = b.repo_name
        /\ a.pull_request = b.pull_request

\* Task.execute is a no-op while a task of the same identity is in progress.
InProgress(collection, model) ==
    \E j \in 1..Len(collection) :
        SameTask(collection[j], model) /\ collection[j].status = "CREATED"

\* A background task starts: unless it is a no-op, its TaskModel is saved (create_task).
StartTask ==
    \E i \in 1..Len(background_tasks) :
        /\ background_tasks[i].state = "scheduled"
        /\ IF InProgress(tasks, TaskModel(background_tasks[i]))
           THEN /\ background_tasks' = [background_tasks EXCEPT ![i].state = "skipped"]
                /\ UNCHANGED tasks
           ELSE /\ tasks' = Append(tasks, TaskModel(background_tasks[i]))
                /\ background_tasks' = [background_tasks EXCEPT ![i].state = "running",
                                                                ![i].model = Len(tasks) + 1]
        /\ UNCHANGED <<providerAndCore, installations, configurations, app_installations, validation, otherVars>>

\* What a FetchConfigTask that succeeds leaves: the stored configuration of its organization.
FetchConfigTask_execute(stored, task) ==
    IF task.type = "FetchConfigTask" THEN stored \cup {task.org_id} ELSE stored

\* A running task succeeds (finish_task).
FinishTask ==
    \E i \in 1..Len(background_tasks) :
        /\ background_tasks[i].state = "running"
        /\ tasks' = [tasks EXCEPT ![background_tasks[i].model].status = "FINISHED"]
        /\ background_tasks' = [background_tasks EXCEPT ![i].state = "done"]
        /\ configurations' = FetchConfigTask_execute(configurations, background_tasks[i])
        /\ UNCHANGED <<providerAndCore, installations, app_installations, validation, otherVars>>

\* A running task raises (fail_task).
FailTask ==
    \E i \in 1..Len(background_tasks) :
        /\ background_tasks[i].state = "running"
        /\ tasks' = [tasks EXCEPT ![background_tasks[i].model].status = "FAILED",
                                  ![background_tasks[i].model].log = "exception"]
        /\ background_tasks' = [background_tasks EXCEPT ![i].state = "done"]
        /\ UNCHANGED <<providerAndCore, installations, configurations, app_installations, validation, otherVars>>

\* The cases of update_installation_status that do not call update_installations.
update_installation_status(collection, installation_id, action) ==
    CASE action = "suspend" -> set_installation_status(collection, installation_id, "SUSPENDED")
      [] action = "unsuspend" -> set_installation_status(collection, installation_id, "INSTALLED")
      [] OTHER -> collection

InstallationActions == {"suspend", "unsuspend", "new_permissions_accepted"}

\* update_installation_status(installation_id, action) for an installation
\* id that may be stored or not and an action other than created / deleted.
UpdateInstallationStatus ==
    \E installation_id \in {InstallationId(g) : g \in GithubIds} \cup {3},
       action \in InstallationActions :
        /\ installation_event' = [action |-> action, installation_id |-> installation_id,
                                  before |-> installations]
        /\ installations' = update_installation_status(installations, installation_id, action)
        /\ UNCHANGED <<providerAndCore, configurations, app_installations, background_tasks,
                       tasks, validation, fetch_all, callers, cli, web_page>>

(***************************************************************************)
(* webapp/tasks/validate_pull_request.py: ValidatePullRequestTask          *)
(*                                                                         *)
(* validation is the task under execution: the configurations GitHub holds *)
(* at the base and at the head of the pull request, the calls the task has *)
(* made so far (trace), the comments it has posted, its result or the      *)
(* exception it raised.                                                    *)
(***************************************************************************)
ConfigTexts == {"config-1", "config-2"}

ConfigRepo == ".otterdog"

ValidatedPullRequest ==
    [number |-> 1, base |-> [ref |-> "main"],
     head |-> [ref |-> "patch-1", sha |-> "abc123",
               repo |-> [name |-> ConfigRepo, owner |-> [login |-> "contributor"]]]]

ValidatePullRequestTask(pull_request_or_number) ==
    [type |-> "ValidatePullRequestTask", installation_id |-> 1, org_id |-> "org",
     repo_name |-> ConfigRepo, pull_request_or_number |-> pull_request_or_number]

\* pull_request_number (lines 50-56); an int argument is held as [int |-> n].
pull_request_number(task) ==
    IF "int" \in DOMAIN task.pull_request_or_number
    THEN task.pull_request_or_number.int
    ELSE task.pull_request_or_number.number

\* What local-plan may report for two different configurations.
LocalPlanResults ==
    {[output |-> "~ settings changed", plan_result |-> 0, requires_secrets |-> "false"],
     [output |-> "~ secret changed", plan_result |-> 0, requires_secrets |-> "true"],
     [output |-> "! validation failed", plan_result |-> 1, requires_secrets |-> "false"]}

escape_for_github(text) == [escaped |-> text]

\* The calls of _pre_execute in order.
PreExecuteSteps(task) ==
    (IF "int" \in DOMAIN task.pull_request_or_number THEN <<"get_pull_request">> ELSE <<>>)
        \o <<"create_commit_status:pending", "add_background_task">>

ExecuteStepsPostingFirst(base_text, head_text) ==
    <<"create_comment", "fetch_config_from_github:BASE", "fetch_config_from_github:HEAD">>
        \o (IF base_text = head_text THEN <<>> ELSE <<"LocalPlanOperation.execute">>)
        \o <<"render_template">>

\* The calls of _execute in order, for the two files fetched.
ExecuteSteps(base_text, head_text) ==
    <<"fetch_config_from_github:BASE", "fetch_config_from_github:HEAD">>
        \o (IF base_text = head_text THEN <<>> ELSE <<"LocalPlanOperation.execute">>)
        \o <<"render_template", "create_comment">>

\* The calls made when the step at position fails_at raises (0: none does).
Performed(steps, fails_at) ==
    IF fails_at = 0 THEN steps ELSE SubSeq(steps, 1, fails_at)

Position(steps, step) ==
    IF \E i \in 1..Len(steps) : steps[i] = step
    THEN CHOOSE i \in 1..Len(steps) : steps[i] = step
    ELSE 0

\* Whether the step is completed when the step at fails_at raises.
Completed(steps, fails_at, step) ==
    /\ Position(steps, step) > 0
    /\ fails_at = 0 \/ Position(steps, step) < fails_at

ValidationResult(base_text, head_text, plan) ==
    IF base_text = head_text
    THEN [plan_output |-> "No changes.", validation_success |-> "true", requires_secrets |-> "false"]
    ELSE [plan_output |-> plan.output,
          validation_success |-> IF plan.plan_result = 0 THEN "true" ELSE "false",
          requires_secrets |-> plan.requires_secrets]

ValidationComment(task, pull_request, validation_result) ==
    [org_id |-> task.org_id, repo_name |-> ConfigRepo,
     number |-> pull_request_number(task),
     sha |-> pull_request.head.sha,
     result |-> escape_for_github(validation_result.plan_output),
     warnings |-> IF validation_result.requires_secrets = "true"
                  THEN <<"some of requested changes require secrets, need to apply these changes manually">>
                  ELSE <<>>]

CheckConfigurationInSyncTask(task) ==
    [type |-> "CheckConfigurationInSyncTask", installation_id |-> task.installation_id,
     org_id |-> task.org_id, repo_name |-> task.repo_name,
     pull_request |-> pull_request_number(task), state |-> "scheduled", model |-> 0]

installationVars == <<installations, configurations, app_installations>>

\* create_task_model of the ValidatePullRequestTask.
ValidationTaskModel(task) ==
    [type |-> task.type, org_id |-> task.org_id, repo_name |-> task.repo_name,
     pull_request |-> pull_request_number(task), status |-> "CREATED", log |-> "null"]

\* The parameters of update_or_create_pull_request in order.
update_or_create_pull_request_parameters ==
    <<"owner", "repo", "pull_request", "valid", "in_sync", "requires_manual_apply", "apply_status">>

\* What a task's call update_or_create_pull_request(*positional, **keywords)
\* raises: a keyword that names a parameter already bound by position is a
\* TypeError; an int bound to pull_request has no get_pr_status.
task_update_or_create_pull_request(positional, keywords) ==
    IF \E i \in 1..Len(positional) : update_or_create_pull_request_parameters[i] \in keywords
    THEN "TypeError"
    ELSE IF "int" \in DOMAIN positional[3] THEN "AttributeError" ELSE "none"

final_status_swapped(validation_result) ==
    IF validation_result.validation_success = "true" THEN "error" ELSE "success"

\* The status _update_final_status creates for a result.
final_status(validation_result) ==
    IF validation_result.validation_success = "true" THEN "success" ELSE "error"

validationRest == <<prVars, repoVars, wfVars, context, patches, pc, providerVars, installationVars, otherVars>>

\* _pre_execute: loads the pull request, sets the pending status and
\* schedules the check of the configuration being in sync.  When it raises
\* the task ends before _execute.
ValidatePreExecute ==
    /\ validation.pc = "scheduled"
    /\ LET steps == PreExecuteSteps(validation.task)
       IN  \E fails_at \in 0..Len(steps) :
               /\ validation' =
                      [validation EXCEPT
                          !.pc = IF fails_at = 0 THEN "pre_executed" ELSE "pre_raised",
                          !.raised = IF fails_at = 0 THEN "none" ELSE "RuntimeError",
                          !.trace = @ \o Performed(steps, fails_at)]
               /\ background_tasks' =
                      IF fails_at = 0
                      THEN Append(background_tasks, CheckConfigurationInSyncTask(validation.task))
                      ELSE background_tasks
    /\ UNCHANGED <<validationRest, tasks>>

\* The TaskModel is saved (create_task), then _execute fetches the two
\* configurations, plans, renders and posts the comment.
ValidateExecute ==
    /\ validation.pc = "pre_executed"
    /\ tasks' = Append(tasks, ValidationTaskModel(validation.task))
    /\ LET steps == ExecuteSteps(validation.base_text, validation.head_text)
       IN  \E fails_at \in 0..Len(steps), plan \in LocalPlanResults :
               LET validation_result ==
                       ValidationResult(validation.base_text, validation.head_text, plan)
                   posted == Completed(steps, fails_at, "create_comment")
               IN  validation' =
                       [validation EXCEPT
                           !.pc = IF fails_at = 0 THEN "executed" ELSE "raised",
                           !.raised = IF fails_at = 0 THEN "none" ELSE "RuntimeError",
                           !.trace = @ \o Performed(steps, fails_at),
                           !.comments = IF posted
                                        THEN Append(@, ValidationComment(validation.task, ValidatedPullRequest,
                                                                         validation_result))
                                        ELSE @,
                           !.result = IF fails_at = 0 THEN validation_result ELSE @]
    /\ UNCHANGED <<validationRest, background_tasks>>

\* _post_execute, then finish_task or fail_task.  For an exception of
\* _execute: the failure status.  For a result: the final status and then
\* update_or_create_pull_request(org_id, repo_name, pull_request_number,
\* PullRequestStatus[...], valid=..., requires_manual_apply=...).
ValidatePostExecute ==
    /\ validation.pc \in {"executed", "raised"}
    /\ IF validation.pc = "raised"
       THEN /\ validation' = [validation EXCEPT !.pc = "post_executed",
                                                !.trace = Append(@, "create_commit_status:failure")]
            /\ tasks' = [tasks EXCEPT ![Len(tasks)].status = "FAILED",
                                      ![Len(tasks)].log = validation.raised]
            /\ UNCHANGED prVars
       ELSE LET positional == <<validation.task.org_id, validation.task.repo_name,
                                [int |-> pull_request_number(validation.task)], "OPEN">>
                raised == task_update_or_create_pull_request(
                              positional, {"valid", "requires_manual_apply"})
            IN  /\ validation' =
                       [validation EXCEPT
                           !.pc = "post_executed",
                           !.post_raised = raised,
                           !.trace = @ \o <<"create_commit_status:" \o final_status(validation.result),
                                           "update_or_create_pull_request">>]
                /\ IF raised = "none"
                   THEN /\ update_or_create_pull_request(
                               positional[1], positional[2], positional[3], positional[4], "null",
                               validation.result.requires_secrets, "null")
                        /\ tasks' = [tasks EXCEPT ![Len(tasks)].status = "FINISHED"]
                   ELSE /\ UNCHANGED prVars
                        /\ tasks' = [tasks EXCEPT ![Len(tasks)].status = "FAILED",
                                                  ![Len(tasks)].log = raised]
    /\ UNCHANGED <<repoVars, wfVars, context, patches, pc, providerVars, installationVars, background_tasks, otherVars>>

(***************************************************************************)
(* webapp/tasks/fetch_all_pull_requests.py and the pull request queries of *)
(* webapp/db/service.py                                                    *)
(***************************************************************************)
MaxFetchedPullRequests == 2

\* _open_or_incomplete_pull_requests_query, as a test of one document.
_open_or_incomplete_pull_requests_query(m) ==
    \/ m.status = "OPEN"
    \/ m.status = "MERGED" /\ m.apply_status # "COMPLETED"

\* _merged_pull_requests_query, as a test of one document.
_merged_pull_requests_query(m) ==
    m.status = "MERGED" /\ m.apply_status = "COMPLETED"

\* One turn of the loop of FetchAllPullRequestsTask._execute: what the
\* import of one pull request raises ("none": it is stored).
import_pull_request(task, pr) ==
    LET status == get_pr_status(pr)
        pr_status == upper(status.value)
        apply_status == IF pr_status = "MERGED" THEN "COMPLETED" ELSE "null"
    IN  IF status.raised # "none" THEN status.raised
        ELSE IF PullRequestStatus_getitem(pr_status).raised # "none"
        THEN PullRequestStatus_getitem(pr_status).raised
        ELSE task_update_or_create_pull_request(
                 <<task.org_id, task.repo_name, [int |-> pr.number], pr_status>>,
                 {"apply_status"})

\* The loop: the number of pull requests passed to
\* update_or_create_pull_request and the exception that ended it.
RECURSIVE import_pull_requests(_, _)
import_pull_requests(task, all_pull_requests) ==
    IF all_pull_requests = <<>> THEN [raised |-> "none"]
    ELSE LET raised == import_pull_request(task, Head(all_pull_requests))
         IN  IF raised # "none" THEN [raised |-> raised]
             ELSE import_pull_requests(task, Tail(all_pull_requests))

\* FetchAllPullRequestsTask._execute.  Every call of
\* update_or_create_pull_request it makes passes the number of the pull
\* request where the function takes the PullRequest, so no call reaches
\* the save and the collection is left as it is.
FetchAllExecute ==
    /\ fetch_all.pc = "scheduled"
    /\ fetch_all' = [fetch_all EXCEPT
                        !.pc = "done",
                        !.raised = import_pull_requests(fetch_all.task,
                                                        fetch_all.all_pull_requests).raised]
    /\ UNCHANGED <<prVars, repoVars, wfVars, context, patches, pc, providerVars,
                   installationVars, background_tasks, tasks, validation, callers, cli, installation_event, web_page>>


(***************************************************************************)
(* Two tasks calling update_or_create_pull_request for one pull request    *)
(* (webapp/db/service.py, webapp/tasks/validate_pull_request.py).          *)
(* ValidatePullRequestTask._pre_execute schedules a                        *)
(* CheckConfigurationInSyncTask for the same pull request as a background  *)
(* task, so both run on the event loop together.  The status lookup is the *)
(* first statement of update_or_create_pull_request and precedes every     *)
(* await, so a call that raises there is one step of the event loop.       *)
(***************************************************************************)

\* The calls of the two tasks: the validation writes valid and
\* requires_manual_apply, the sync check writes in_sync.
Callers(pr) ==
    {<<[task |-> "ValidatePullRequestTask", pr |-> pr, pc |-> "pending",
        valid |-> valid, in_sync |-> "null",
        requires_manual_apply |-> requires_manual_apply, apply_status |-> "null"],
       [task |-> "CheckConfigurationInSyncTask", pr |-> pr, pc |-> "pending",
        valid |-> "null", in_sync |-> in_sync,
        requires_manual_apply |-> "null", apply_status |-> "null"]>> :
        valid \in {"true", "false"}, requires_manual_apply \in {"true", "false"},
        in_sync \in {"true", "false"}}

\* One of the pending calls runs; the tasks are scheduled in either order.
CallUpdateOrCreatePullRequest ==
    \E i \in DOMAIN callers :
        /\ callers[i].pc = "pending"
        /\ update_or_create_pull_request("org", ".otterdog", callers[i].pr,
               callers[i].valid, callers[i].in_sync,
               callers[i].requires_manual_apply, callers[i].apply_status)
        /\ callers' = [callers EXCEPT ![i].pc = IF pr_call'.raised = "none" THEN "returned"
                                                 ELSE pr_call'.raised]
        /\ UNCHANGED <<repoVars, wfVars, context, patches, pc, providerVars, installationVars,
                       background_tasks, tasks, validation, fetch_all, cli,
                       installation_event, web_page>>

(***************************************************************************)
(* operations/import_operation.py, operations/canonical_diff_operation.py, *)
(* fetch.py                                                                *)
(*                                                                         *)
(* cli is one run of an operation for one organization: the organization's *)
(* definition file ("absent" or its text), the force flag, what the user   *)
(* answers at a prompt, whether the credentials resolve and the loads      *)
(* succeed; and what the run did: prompted, the provider calls, the value  *)
(* returned by execute ("none" while running or when it raised).           *)
(***************************************************************************)
Answers == {"yes", "no", "y", "Yes", ""}

Outcomes == {"ok", "RuntimeError"}

\* What load_from_github and write_jsonnet_config produce for the file.
ImportedText == "imported definition"

ImportOperation_execute_unprompted(c) ==
    [c EXCEPT !.pc = "done", !.returned = "0", !.file = ImportedText,
              !.calls = <<"get_credentials", "load_from_github">>]

\* ImportOperation.execute
ImportOperation_execute(c) ==
    LET prompt == c.file # "absent" /\ c.force_processing = "false"
        asked == [c EXCEPT !.pc = "done", !.prompted = IF prompt THEN "true" ELSE "false"]
    IN  IF prompt /\ c.answer # "yes"
        THEN [asked EXCEPT !.returned = "1"]
        ELSE IF c.credentials = "RuntimeError"
        THEN [asked EXCEPT !.returned = "1", !.calls = <<"get_credentials">>]
        ELSE IF c.github = "RuntimeError"
        THEN [asked EXCEPT !.raised = "RuntimeError",
                           !.calls = <<"get_credentials", "load_from_github">>]
        ELSE [asked EXCEPT !.returned = "0", !.file = ImportedText,
                           !.calls = <<"get_credentials", "load_from_github">>]

\* CanonicalDiffOperation.execute
CanonicalDiffOperation_execute(c) ==
    IF c.file = "absent"
    THEN [c EXCEPT !.pc = "done", !.returned = "1"]
    ELSE IF c.load_from_file = "RuntimeError"
    THEN [c EXCEPT !.pc = "done", !.returned = "1", !.calls = <<"load_from_file">>]
    ELSE [c EXCEPT !.pc = "done", !.returned = "0", !.calls = <<"load_from_file">>]

\* FetchOperation.execute: nothing is caught and nothing is asked.
FetchOperation_execute(c) ==
    IF c.credentials = "RuntimeError"
    THEN [c EXCEPT !.pc = "done", !.raised = "RuntimeError", !.calls = <<"get_credentials">>]
    ELSE IF c.github = "RuntimeError"
    THEN [c EXCEPT !.pc = "done", !.raised = "RuntimeError",
                   !.calls = <<"get_credentials", "load_from_github">>]
    ELSE [c EXCEPT !.pc = "done", !.returned = "0", !.file = ImportedText,
                   !.calls = <<"get_credentials", "load_from_github">>]

cliRest == <<prVars, repoVars, wfVars, context, patches, pc, providerVars, installationVars, background_tasks, tasks, validation, fetch_all, callers, installation_event, web_page>>

ImportExecute ==
    /\ cli.operation = "import" /\ cli.pc = "start"
    /\ cli' = ImportOperation_execute(cli)
    /\ UNCHANGED cliRest

CanonicalDiffExecute ==
    /\ cli.operation = "canonical-diff" /\ cli.pc = "start"
    /\ cli' = CanonicalDiffOperation_execute(cli)
    /\ UNCHANGED cliRest

FetchExecute ==
    /\ cli.operation = "fetch" /\ cli.pc = "start"
    /\ cli' = FetchOperation_execute(cli)
    /\ UNCHANGED cliRest

(***************************************************************************)
(* github_web.py: the web UI transport                                     *)
(*                                                                         *)
(* A Python value is tagged with its type: [bool |-> "true"], [str |-> s], *)
(* [int |-> n].  web_page holds the settings handed to _update_settings    *)
(* and the actions performed on the page, in order.                        *)
(***************************************************************************)
\* web_settings_definition: the pages in order, each with its settings in order.
web_settings_definition ==
    <<[page_url |-> "settings/member_privileges",
       settings |-> <<[setting |-> "members_can_change_repo_visibility",
                       selector |-> "#visibility", save |-> "#save-visibility"],
                      [setting |-> "members_can_delete_repositories",
                       selector |-> "#delete", save |-> "#save-delete"]>>],
      [page_url |-> "settings/discussions",
       settings |-> <<[setting |-> "discussion_source_repository",
                       selector |-> "#repository", save |-> "#save-discussions"]>>]>>

WebSettings ==
    UNION {{web_settings_definition[i].settings[j].setting :
                j \in 1..Len(web_settings_definition[i].settings)} :
           i \in 1..Len(web_settings_definition)}

WebValues ==
    {[bool |-> "true"], [bool |-> "false"], [str |-> "True"], [str |-> "False"],
     [str |-> "org/discussions"], [int |-> 1]}

\* The first argument of set_checked for a bool: new_value == 'True' or new_value.
checked_value(new_value) == new_value.bool

\* The actions of lines 99-111 for one setting.
update_setting(setting_def, new_value) ==
    IF "bool" \in DOMAIN new_value
    THEN <<[action |-> "set_checked", selector |-> setting_def.selector,
            value |-> checked_value(new_value)],
           [action |-> "click", selector |-> setting_def.save, trial |-> "true"],
           [action |-> "click", selector |-> setting_def.save, trial |-> "false"]>>
    ELSE IF "str" \in DOMAIN new_value
    THEN <<[action |-> "fill", selector |-> setting_def.selector, value |-> new_value.str],
           [action |-> "click", selector |-> setting_def.save, trial |-> "true"],
           [action |-> "click", selector |-> setting_def.save, trial |-> "false"]>>
    ELSE <<[action |-> "exit_with_message", selector |-> "none", value |-> "not yet supported value type"]>>

Exits(actions) == \E i \in 1..Len(actions) : actions[i].action = "exit_with_message"

\* The settings of one page in order, until one exits.
RECURSIVE update_page_settings(_, _)
update_page_settings(setting_defs, settings) ==
    IF setting_defs = <<>> THEN <<>>
    ELSE LET setting_def == Head(setting_defs)
             actions == IF setting_def.setting \in DOMAIN settings
                        THEN update_setting(setting_def, settings[setting_def.setting])
                        ELSE <<>>
         IN  IF Exits(actions) THEN actions
             ELSE actions \o update_page_settings(Tail(setting_defs), settings)

\* _update_settings: the pages that hold one of the settings are loaded in
\* the order of the definition; a page that does not load exits.
RECURSIVE _update_settings(_, _, _, _)
_update_settings(org_id, settings, pages, not_ok) ==
    IF pages = <<>> THEN <<>>
    ELSE LET page_def == Head(pages)
             wanted == \E j \in 1..Len(page_def.settings) :
                           page_def.settings[j].setting \in DOMAIN settings
             goto == [action |-> "goto", selector |-> "none",
                      value |-> "https://github.com/organizations/" \o org_id \o "/" \o page_def.page_url]
             actions == IF page_def.page_url \in not_ok
                        THEN <<goto, [action |-> "exit_with_message", selector |-> "none",
                                      value |-> "unable to access github page"]>>
                        ELSE <<goto>> \o update_page_settings(page_def.settings, settings)
         IN  IF ~wanted THEN _update_settings(org_id, settings, Tail(pages), not_ok)
             ELSE IF Exits(actions) THEN actions
             ELSE actions \o _update_settings(org_id, settings, Tail(pages), not_ok)

SettingsDicts ==
    UNION {[keys -> WebValues] : keys \in SUBSET WebSettings}

\* GithubWeb._update_settings on a fresh page.
UpdateSettings ==
    /\ web_page.pc = "open"
    /\ \E settings \in SettingsDicts, not_ok \in {{}, {"settings/member_privileges"}} :
           web_page' = [web_page EXCEPT
                           !.pc = "updated", !.settings = settings, !.not_ok = not_ok,
                           !.actions = _update_settings("org", settings,
                                                        web_settings_definition, not_ok)]
    /\ UNCHANGED <<prVars, repoVars, wfVars, context, patches, pc, providerVars, installationVars, background_tasks, tasks, validation, fetch_all, callers, cli, installation_event>>

(***************************************************************************)
(* Specifications                                                          *)
(***************************************************************************)

\* The webhook service's pull request code over a collection that may hold
\* documents of earlier runs.
InitPR ==
    /\ pull_requests \in StoredAtStart
    /\ pr_call = NoCall
    /\ IdleRepo /\ IdleWf
    /\ context = <<>> /\ patches = <<>> /\ pc = "loaded"
    /\ IdleProvider /\ IdleService

NextPR == GetPrStatus \/ UpdateOrCreatePullRequest

SpecPR == InitPR /\ [][NextPR]_vars

\* A repository present on both sides of a diff: the two sides' private and
\* archived, and up to MaxDiffering other attributes that differ or that the
\* expected side leaves unset.
InitRepoDiff ==
    /\ IdlePR /\ IdleWf
    /\ org_settings = NoSettings
    /\ \E D \in SubsetsUpTo(OtherFields, MaxDiffering) :
       \E U \in SUBSET D :
       \E ep \in {"true", "false", "unset"}, ea \in {"true", "false", "unset"},
          cp \in {"true", "false"}, ca \in {"true", "false"} :
           /\ repo = MakeRepository(
                  [f \in RepositoryFields |->
                      CASE f = "private" -> ep
                        [] f = "archived" -> ea
                        [] f \in U -> "unset"
                        [] f \in D \ U -> "expected"
                        [] OTHER -> "same"], <<>>)
           /\ current_repo = MakeRepository(
                  [f \in RepositoryFields |->
                      CASE f = "private" -> cp
                        [] f = "archived" -> ca
                        [] f \in D -> "current"
                        [] OTHER -> "same"], <<>>)
    /\ context = <<>> /\ patches = <<>> /\ pc = "loaded"
    /\ IdleProvider /\ IdleService

NextRepoDiff == GenerateRepositoryPatch

SpecRepoDiff == InitRepoDiff /\ [][NextRepoDiff]_vars

\* A repository under validation: every state of the attributes validate
\* reads, under every organization setting it reads.
InitRepoValidate ==
    /\ IdlePR /\ IdleWf
    /\ \E attrs \in [ValidatedFields -> AttributeStates],
          rules \in SeqsUpTo({[pattern |-> "main"]}, MaxValidatedRules) :
           repo = MakeRepository(
                      [f \in RepositoryFields |->
                          IF f \in ValidatedFields THEN attrs[f] ELSE "unset"], rules)
    /\ current_repo = NoObject
    /\ org_settings \in OrganizationSettings
    /\ context = <<>> /\ patches = <<>> /\ pc = "loaded"
    /\ IdleProvider /\ IdleService

NextRepoValidate == Validate

SpecRepoValidate == InitRepoValidate /\ [][NextRepoValidate]_vars

\* A repository whose branch protection rules are loaded and changed.
InitRepoRules ==
    /\ IdlePR /\ IdleWf
    /\ repo = MakeRepository(UnsetAttrs, <<>>)
    /\ current_repo = NoObject
    /\ org_settings = NoSettings
    /\ context = <<>> /\ patches = <<>> /\ pc = "loaded"
    /\ IdleProvider /\ IdleService

NextRepoRules == FromModel \/ AddBranchProtectionRule \/ SetBranchProtectionRules

SpecRepoRules == InitRepoRules /\ [][NextRepoRules]_vars

\* Workflow settings of a repository on both sides of a diff, or on the
\* expected side alone.
InitWfPatch ==
    /\ IdlePR /\ IdleRepo
    /\ wf_expected \in RepositoryWorkflowSettings
    /\ wf_current \in RepositoryWorkflowSettings \cup {NoObject}
    /\ root_workflows = NoWorkflows
    /\ context = <<>> /\ patches = <<>> /\ pc = "loaded"
    /\ IdleProvider /\ IdleService

NextWfPatch == GenerateLivePatch

SpecWfPatch == InitWfPatch /\ [][NextWfPatch]_vars

\* Workflow settings of a repository under validation.
InitWfValidate ==
    /\ IdlePR /\ IdleRepo
    /\ wf_expected \in ValidatedWorkflowSettings
    /\ wf_current = NoObject
    /\ root_workflows \in OrganizationWorkflowSettings
    /\ context = <<>> /\ patches = <<>> /\ pc = "loaded"
    /\ IdleProvider /\ IdleService

NextWfValidate == ValidateWorkflowSettings

SpecWfValidate == InitWfValidate /\ [][NextWfValidate]_vars

\* The model objects and the pull request collection while other code is checked.
IdleCore ==
    /\ IdlePR /\ IdleRepo /\ IdleWf
    /\ context = <<>> /\ patches = <<>> /\ pc = "loaded"

\* A provider with nothing sent yet, against a server that gives the responses of script.
ProviderAt(script) ==
    /\ server = script /\ requests = <<>> /\ provider_calls = <<>>
    /\ rest_call = [op |-> "none"] /\ paging = [op |-> "none"]

\* One call on the Requester or on a verb of the RestClient, against every
\* short script of responses.
InitRequester ==
    /\ IdleCore /\ IdleService
    /\ \E script \in SeqsUpTo(Responses, MaxResponses) : ProviderAt(script)
    /\ live = [organization |-> "none"]

NextRequester ==
    RequestJson \/ UpdateOrgSettings \/ UpdateWebhook \/ AddWebhook \/ GetRepoData \/ UpdateRepo

SpecRequester == InitRequester /\ [][NextRequester]_vars

\* A paged listing, page by page, against every short script of pages.
InitPaged ==
    /\ IdleCore /\ IdleService
    /\ \E script \in SeqsUpTo(PageResponses, MaxPages) : ProviderAt(script)
    /\ live = [organization |-> "none"]

NextPaged == GetRepos \/ RequestPagedJson \/ RequestPage

SpecPaged == InitPaged /\ [][NextPaged]_vars

\* The addition of a repository, with and without a template.
InitAddRepo ==
    /\ IdleCore /\ IdleService
    /\ \E script \in SeqsUpTo(AddRepoResponses, MaxAddRepoResponses) : ProviderAt(script)
    /\ live = [organization |-> "none"]

NextAddRepo == AddRepo

SpecAddRepo == InitAddRepo /\ [][NextAddRepo]_vars

\* One update of the security managers of an organization, for every list of
\* current managers.
InitSecurityManagers ==
    /\ IdleCore /\ IdleService
    /\ \E listed \in ListedManagers : ProviderAt(SecurityManagersScript(listed))
    /\ live = [organization |-> "none"]

NextSecurityManagers == UpdateSecurityManagers

SpecSecurityManagers == InitSecurityManagers /\ [][NextSecurityManagers]_vars

\* An apply run over LiveAtStart: the handlers in any order, against every
\* short script of responses.
InitApply ==
    /\ IdlePR /\ IdleRepo /\ IdleWf /\ IdleService
    /\ context = <<>> /\ patches = <<>> /\ pc = "loaded"
    /\ \E script \in SeqsUpTo(ApplyResponses, MaxApplyResponses) : ProviderAt(script)
    /\ live = LiveAtStart

NextApply ==
    \/ HandleModifiedSettings \/ HandleModifiedWebhook \/ HandleExtraWebhook \/ HandleNewWebhook
    \/ HandleModifiedRepo \/ HandleExtraRepo \/ HandleNewRepo
    \/ HandleModifiedRule \/ HandleExtraRule \/ HandleNewRule

SpecApply == InitApply /\ [][NextApply]_vars

\* The installation events of the webhook service and its background tasks,
\* from empty collections or with the configuration of org-a stored before.
InitInstallations ==
    /\ IdleCore /\ IdleProvider /\ IdleOther
    /\ installations = <<>>
    /\ configurations \in {{}, {"org-a"}}
    /\ app_installations \in AppInstallationLists
    /\ background_tasks = <<>> /\ tasks = <<>>
    /\ validation = [task |-> "none"]

NextInstallations ==
    \/ AppInstallationsChange \/ UpdateInstallations
    \/ SuspendInstallation \/ UnsuspendInstallation
    \/ StartTask \/ FinishTask \/ FailTask

SpecInstallations == InitInstallations /\ [][NextInstallations]_vars

\* One ValidatePullRequestTask, for a pull request given as object or as
\* number, over every pair of configurations at its base and at its head,
\* with the pull request stored before or not.
InitValidate ==
    /\ IdleProvider /\ IdleOther
    /\ pull_requests \in StoredAtStart /\ pr_call = NoCall
    /\ IdleRepo /\ IdleWf
    /\ context = <<>> /\ patches = <<>> /\ pc = "loaded"
    /\ installations = <<>> /\ configurations = {} /\ app_installations = <<>>
    /\ background_tasks = <<>> /\ tasks = <<>>
    /\ \E pull_request_or_number \in {ValidatedPullRequest, [int |-> ValidatedPullRequest.number]},
          base_text \in ConfigTexts, head_text \in ConfigTexts :
           validation = [task |-> ValidatePullRequestTask(pull_request_or_number),
                         pc |-> "scheduled", raised |-> "none",
                         base_text |-> base_text, head_text |-> head_text,
                         post_raised |-> "none", stored |-> pull_requests, trace |-> <<>>, comments |-> <<>>, result |-> [plan_output |-> "null"]]

NextValidate == ValidatePreExecute \/ ValidateExecute \/ ValidatePostExecute

SpecValidate == InitValidate /\ [][NextValidate]_vars

\* One FetchAllPullRequestsTask over every list of pull requests GitHub may
\* return for the repository, with a pull request stored before or not.
InitFetchAll ==
    /\ IdleProvider /\ IdleRepo /\ IdleWf
    /\ context = <<>> /\ patches = <<>> /\ pc = "loaded"
    /\ pull_requests \in StoredAtStart /\ pr_call = NoCall
    /\ installations = <<>> /\ configurations = {} /\ app_installations = <<>>
    /\ background_tasks = <<>> /\ tasks = <<>>
    /\ validation = [task |-> "none"]
    /\ callers = <<>> /\ installation_event = [action |-> "none"] /\ cli = [operation |-> "none"] /\ web_page = [url |-> "none"]
    /\ \E all_pull_requests \in SeqsUpTo(PullRequest, MaxFetchedPullRequests) :
           fetch_all = [task |-> [type |-> "FetchAllPullRequestsTask", installation_id |-> 1,
                                  org_id |-> "org", repo_name |-> ".otterdog"],
                        pc |-> "scheduled", raised |-> "none",
                        all_pull_requests |-> all_pull_requests, stored |-> pull_requests]

NextFetchAll == FetchAllExecute

SpecFetchAll == InitFetchAll /\ [][NextFetchAll]_vars

\* One run of import, canonical-diff or fetch for one organization.
InitCli ==
    /\ IdleCore /\ IdleProvider
    /\ installations = <<>> /\ configurations = {} /\ app_installations = <<>>
    /\ background_tasks = <<>> /\ tasks = <<>>
    /\ validation = [task |-> "none"] /\ fetch_all = [task |-> "none"]
    /\ callers = <<>> /\ installation_event = [action |-> "none"] /\ web_page = [url |-> "none"]
    /\ \E operation \in {"import", "canonical-diff", "fetch"},
          file \in {"absent", "definition", ImportedText},
          force_processing \in {"true", "false"}, answer \in Answers,
          credentials \in Outcomes, github \in Outcomes, load_from_file \in Outcomes :
           cli = [operation |-> operation, pc |-> "start", file |-> file, at_start |-> file,
                  force_processing |-> force_processing, answer |-> answer,
                  credentials |-> credentials, github |-> github,
                  load_from_file |-> load_from_file,
                  prompted |-> "false", calls |-> <<>>, returned |-> "none", raised |-> "none"]

NextCli == ImportExecute \/ CanonicalDiffExecute \/ FetchExecute

SpecCli == InitCli /\ [][NextCli]_vars

\* One call of _update_settings on a page that has just been opened.
InitWeb ==
    /\ IdleCore /\ IdleProvider
    /\ installations = <<>> /\ configurations = {} /\ app_installations = <<>>
    /\ background_tasks = <<>> /\ tasks = <<>>
    /\ validation = [task |-> "none"] /\ fetch_all = [task |-> "none"]
    /\ callers = <<>> /\ installation_event = [action |-> "none"] /\ cli = [operation |-> "none"]
    /\ web_page = [url |-> "about:blank", pc |-> "open", settings |-> <<>>, not_ok |-> {},
                   actions |-> <<>>]

NextWeb == UpdateSettings

SpecWeb == InitWeb /\ [][NextWeb]_vars

\* The suspend and unsuspend events (and events that are neither), on the
\* collections that update_installations leaves for the lists of GitHub.
InitInstallationStatus ==
    /\ IdleCore /\ IdleProvider
    /\ configurations = {} /\ background_tasks = <<>> /\ tasks = <<>>
    /\ validation = [task |-> "none"] /\ fetch_all = [task |-> "none"]
    /\ callers = <<>> /\ cli = [operation |-> "none"] /\ web_page = [url |-> "none"]
    /\ installation_event = [action |-> "none"]
    /\ app_installations \in AppInstallationLists
    /\ installations = update_installations_session(<<>>, app_installations)

NextInstallationStatus == UpdateInstallationStatus

SpecInstallationStatus == InitInstallationStatus /\ [][NextInstallationStatus]_vars

\* Two tasks calling update_or_create_pull_request for the same pull request,
\* which is not stored yet.
InitCallers ==
    /\ IdleCore /\ IdleProvider
    /\ installations = <<>> /\ configurations = {} /\ app_installations = <<>>
    /\ background_tasks = <<>> /\ tasks = <<>>
    /\ validation = [task |-> "none"] /\ fetch_all = [task |-> "none"]
    /\ cli = [operation |-> "none"] /\ installation_event = [action |-> "none"]
    /\ web_page = [url |-> "none"]
    /\ \E pr \in PullRequest : callers \in Callers(pr)

NextCallers == CallUpdateOrCreatePullRequest

SpecCallers == InitCallers /\ [][NextCallers]_vars

(***************************************************************************)
(* Properties                                                              *)
(***************************************************************************)

Has(failures, type, rule) ==
    \E i \in 1..Len(failures) : failures[i] = Failure(type, rule)

HasRule(failures, rule) ==
    \E i \in 1..Len(failures) : failures[i].rule = rule

\* The status the mapping assigns to a valid (state, merged) combination.
MappedStatus(pr) ==
    CASE pr.state = "open" -> "OPEN"
      [] pr.state = "closed" /\ pr.merged = "true" -> "MERGED"
      [] pr.state = "closed" /\ pr.merged = "false" -> "CLOSED"
      [] OTHER -> "invalid"

\* C1: get_pr_status maps every pull request with state=open to OPEN, with
\* state=closed and merged=true to MERGED, with state=closed and merged=false
\* to CLOSED, and update_or_create_pull_request stores a document with that
\* mapped status for the pull request.
C1_StatusMappedAndStored ==
    MappedStatus(pr_call.pr) # "invalid" =>
        /\ pr_call.op = "get_pr_status" =>
              pr_call.raised = "none" /\ upper(pr_call.value) = MappedStatus(pr_call.pr)
        /\ pr_call.op = "update_or_create_pull_request" =>
              /\ pr_call.raised = "none"
              /\ \E m \in pull_requests :
                    /\ m.pull_request = pr_call.pr.number
                    /\ m.status = MappedStatus(pr_call.pr)

\* C2 as stated: every combination other than (open, merged absent or
\* false), (closed, true) and (closed, false), that is an unknown state, open
\* with merged=true and closed with merged absent, makes get_pr_status raise.
C2_OtherCombinationsRejected ==
    (/\ pr_call.op = "get_pr_status"
     /\ \/ pr_call.pr.state \notin {"open", "closed"}
        \/ pr_call.pr.state = "open" /\ pr_call.pr.merged = "true"
        \/ pr_call.pr.state = "closed" /\ pr_call.pr.merged = "null")
    => pr_call.raised # "none"

\* C2 amended: get_pr_status raises exactly for a state that is neither open
\* nor closed; state=open yields open whatever merged is, and state=closed
\* with merged absent (null) yields closed.
C2_OnlyUnknownStateRejected ==
    pr_call.op = "get_pr_status" =>
        /\ pr_call.raised # "none" <=> pr_call.pr.state \notin {"open", "closed"}
        /\ pr_call.raised = "RuntimeError" \/ pr_call.raised = "none"
        /\ pr_call.pr.state = "open" => pr_call.value = "open"
        /\ pr_call.pr.state = "closed" /\ pr_call.pr.merged = "null" =>
              pr_call.value = "closed"

C2_ClosedWithoutMergedSeen ==
    /\ pr_call.op = "get_pr_status"
    /\ pr_call.pr.state = "closed" /\ pr_call.pr.merged = "null"
    /\ pr_call.value = "closed"

\* The archive-frozen set, as the claim lists it.
ArchiveFrozen ==
    {"allow_auto_merge", "allow_merge_commit", "allow_rebase_merge",
     "allow_squash_merge", "allow_update_branch", "delete_branch_on_merge",
     "merge_commit_message", "merge_commit_title", "squash_merge_commit_message",
     "squash_merge_commit_title", "dependabot_alerts_enabled"}

\* C3: an archived Repository includes no attribute of the archive-frozen
\* set in the diff computation, and no CHANGE patch of a repository that is
\* archived on either side changes one of them, whatever their values.
C3_ArchiveMasking ==
    /\ \A r \in {repo, current_repo} :
          r.archived = "true" =>
              \A f \in ArchiveFrozen : ~Repository_include_field_for_diff_computation(r, f)
    /\ (repo.archived = "true" \/ current_repo.archived = "true") =>
          \A i \in 1..Len(patches) : DOMAIN patches[i].changes \cap ArchiveFrozen = {}

C3_ArchivedPatchedWithFrozenDiffering ==
    /\ pc = "patched"
    /\ repo.archived = "true"
    /\ Len(patches) = 1
    /\ \E f \in ArchiveFrozen : repo[f] = "expected" /\ current_repo[f] = "current"

\* C4: a Repository with private = true includes neither secret_scanning nor
\* secret_scanning_push_protection in the diff computation, archived or not,
\* and no CHANGE patch of a private repository changes one of them.
C4_SecretScanningMaskedWhenPrivate ==
    /\ \A r \in {repo, current_repo} :
          r.private = "true" =>
              \A f \in {"secret_scanning", "secret_scanning_push_protection"} :
                  ~Repository_include_field_for_diff_computation(r, f)
    /\ repo.private = "true" =>
          \A i \in 1..Len(patches) :
              DOMAIN patches[i].changes
                  \cap {"secret_scanning", "secret_scanning_push_protection"} = {}

\* C5: when the difference of the two workflow settings contains
\* allowed_actions, one CHANGE patch is emitted and its changes hold enabled
\* with the expected enabled on both sides; when it does not, enabled is in
\* a patch's changes only if both sides set it and differ in it.
C5_EnabledForcedWithAllowedActions ==
    (pc = "patched" /\ wf_current # NoObject) =>
        LET diff == RepositoryWorkflowSettings_get_difference_from(wf_expected, wf_current)
        IN IF "allowed_actions" \in DOMAIN diff
           THEN /\ Len(patches) = 1
                /\ patches[1].patch_type = "CHANGE"
                /\ "enabled" \in DOMAIN patches[1].changes
                /\ patches[1].changes["enabled"] =
                       Change(wf_expected.enabled, wf_expected.enabled)
           ELSE \A i \in 1..Len(patches) :
                    "enabled" \in DOMAIN patches[i].changes =>
                        /\ wf_expected.enabled # wf_current.enabled
                        /\ wf_expected.enabled # "unset"
                        /\ wf_current.enabled # "unset"
                        /\ patches[i].changes["enabled"] =
                               Change(wf_expected.enabled, wf_current.enabled)

C5_EnabledForcedThoughEqual ==
    /\ pc = "patched"
    /\ wf_current # NoObject
    /\ wf_expected.enabled = "true" /\ wf_current.enabled = "true"
    /\ wf_expected.allowed_actions = "all" /\ wf_current.allowed_actions = "selected"
    /\ Len(patches) = 1
    /\ "enabled" \in DOMAIN patches[1].changes

\* C6: generate_live_patch hands at most one patch to the handler: an ADD
\* exactly when there is no current object, a CHANGE exactly when there is
\* one and the difference is not empty; for equal objects it hands none.
C6_DiffPurity ==
    pc = "patched" =>
        /\ Len(patches) <= 1
        /\ (\E i \in 1..Len(patches) : patches[i].patch_type = "ADD")
              <=> wf_current = NoObject
        /\ (\E i \in 1..Len(patches) : patches[i].patch_type = "CHANGE")
              <=> /\ wf_current # NoObject
                  /\ DOMAIN RepositoryWorkflowSettings_get_difference_from(
                                wf_expected, wf_current) # {}
        /\ wf_expected = wf_current => patches = <<>>

C6_EqualObjectsNoPatch ==
    /\ pc = "patched"
    /\ wf_expected = wf_current
    /\ wf_expected.enabled = "true" /\ wf_expected.allowed_actions = "selected"
    /\ patches = <<>>

\* C7: validate adds the forking ERROR exactly when the repository is
\* private, allows forking and the organization's
\* members_can_fork_private_repositories is false; a public repository with
\* allow_forking = false gets the WARNING and no forking ERROR.
C7_ForkingError ==
    pc = "validated" =>
        /\ Has(context, "ERROR", "private_repo_allows_forking")
              <=> /\ repo.private = "true"
                  /\ repo.allow_forking = "true"
                  /\ org_settings.members_can_fork_private_repositories = "false"
        /\ (repo.private = "false" /\ repo.allow_forking = "false") =>
              /\ Has(context, "WARNING", "public_repo_disallows_forking")
              /\ ~HasRule(context, "private_repo_allows_forking")
              /\ ~Has(context, "ERROR", "public_repo_disallows_forking")

C7_ForkingErrorAdded ==
    /\ pc = "validated"
    /\ repo.private = "true" /\ repo.allow_forking = "true"
    /\ Has(context, "ERROR", "private_repo_allows_forking")

\* C8 as stated: whenever workflows are enabled on the repository while the
\* organization enables them for no repository, or the repository's
\* default_workflow_permissions is write while the organization's is read,
\* validate adds an ERROR, whatever the repository's enabled is.
C8_MorePermissiveAlwaysError ==
    pc = "validated" =>
        /\ (wf_expected.enabled = "true" /\ root_workflows.enabled_repositories = "none")
              => Has(context, "ERROR", "workflows_enabled")
        /\ (/\ wf_expected.default_workflow_permissions = "write"
            /\ root_workflows.default_workflow_permissions = "read")
              => Has(context, "ERROR", "default_workflow_permissions")

\* C8 amended: when the repository's enabled is set to true, validate adds
\* an ERROR for workflows enabled against an organization that enables none,
\* and an ERROR for default_workflow_permissions write against the
\* organization's read, whatever allowed_actions is; when enabled is false,
\* unset or null it adds neither.
C8_ErrorWhenEnabled ==
    pc = "validated" =>
        /\ wf_expected.enabled = "true" =>
              /\ root_workflows.enabled_repositories = "none"
                    <=> Has(context, "ERROR", "workflows_enabled")
              /\ (/\ wf_expected.default_workflow_permissions = "write"
                  /\ root_workflows.default_workflow_permissions = "read")
                    <=> Has(context, "ERROR", "default_workflow_permissions")
        /\ wf_expected.enabled # "true" =>
              /\ ~HasRule(context, "workflows_enabled")
              /\ ~HasRule(context, "default_workflow_permissions")

C8_WritePermissionErrorWhenEnabled ==
    /\ pc = "validated"
    /\ wf_expected.enabled = "true"
    /\ wf_expected.allowed_actions = "unset"
    /\ wf_expected.default_workflow_permissions = "write"
    /\ root_workflows.default_workflow_permissions = "read"
    /\ root_workflows.enabled_repositories = "all"
    /\ Has(context, "ERROR", "default_workflow_permissions")

\* C9: a validation rule whose repository attribute is unset adds no
\* failure, whatever the organization settings are, and a repository with
\* private, allow_forking, has_wiki and web_commit_signoff_required unset and
\* without branch protection rules gets no failure at all; validate is never
\* blocked.
C9_UnsetIgnoredByValidate ==
    /\ pc = "loaded" => ENABLED Validate
    /\ pc = "validated" =>
          /\ repo.private = "unset" =>
                /\ ~HasRule(context, "public_repo_disallows_forking")
                /\ ~HasRule(context, "private_repo_has_wiki_on_free_plan")
                /\ ~HasRule(context, "private_repo_allows_forking")
          /\ repo.allow_forking = "unset" =>
                /\ ~HasRule(context, "public_repo_disallows_forking")
                /\ ~HasRule(context, "private_repo_allows_forking")
          /\ repo.has_wiki = "unset" =>
                ~HasRule(context, "private_repo_has_wiki_on_free_plan")
          /\ repo.web_commit_signoff_required = "unset" =>
                ~HasRule(context, "web_commit_signoff_not_required")
          /\ ((\A f \in ValidatedFields : repo[f] = "unset")
                 /\ repo.branch_protection_rules = <<>>) => context = <<>>

C9_AllUnsetUnderStrictOrganization ==
    /\ pc = "validated"
    /\ \A f \in ValidatedFields : repo[f] = "unset"
    /\ repo.branch_protection_rules = <<>>
    /\ org_settings.plan = "free"
    /\ org_settings.web_commit_signoff_required = "true"
    /\ org_settings.members_can_fork_private_repositories = "false"
    /\ context = <<>>

\* C10: no two branch protection rules of the repository share a pattern.
C10_KeyUniqueness ==
    \A i, j \in 1..Len(repo.branch_protection_rules) :
        i # j =>
            repo.branch_protection_rules[i].pattern
                # repo.branch_protection_rules[j].pattern

Handled(handlers) == {i \in 1..Len(patches) : patches[i].handler \in handlers}

OrgPatchRequests ==
    {j \in 1..Len(requests) :
        requests[j].method = "PATCH" /\ requests[j].url = _build_url(<<"orgs", "org">>)}

\* C11: a CHANGE of the organization settings makes exactly one
\* update_org_settings call, whose payload has exactly the keys of the
\* modification map, each with its expected value; that payload, and nothing
\* else, is what the PATCH of the organization carries.
C11_OnlyModifiedSettingsSent ==
    /\ \A i \in Handled({"handle_modified_settings"}) :
          LET modified_settings == patches[i].args.modified_settings
              calls == patches[i].calls
          IN  /\ Len(calls) = 1
              /\ calls[1].verb = "update_org_settings"
              /\ DOMAIN calls[1].data = DOMAIN modified_settings
              /\ \A key \in DOMAIN modified_settings :
                    calls[1].data[key] = modified_settings[key][1]
    /\ Cardinality({j \in 1..Len(provider_calls) : provider_calls[j].verb = "update_org_settings"})
           = Cardinality(Handled({"handle_modified_settings"}))
    /\ Cardinality(OrgPatchRequests) = Cardinality(Handled({"handle_modified_settings"}))
    /\ \A j \in OrgPatchRequests :
          \E i \in Handled({"handle_modified_settings"}) :
              /\ DOMAIN requests[j].data.json_object = DOMAIN patches[i].args.modified_settings
              /\ \A key \in DOMAIN requests[j].data.json_object :
                    requests[j].data.json_object[key] = patches[i].args.modified_settings[key][1]

\* A CHANGE of web_commit_signoff_required alone was applied: the setting
\* has its expected value on GitHub, the other setting is as it was.
C11_SignoffChangeApplied ==
    /\ Handled({"handle_modified_settings"}) # {}
    /\ Cardinality(OrgPatchRequests) = 1
    /\ \E j \in OrgPatchRequests :
          DOMAIN requests[j].data.json_object = {"web_commit_signoff_required"}
    /\ live.settings["web_commit_signoff_required"] = "true"
    /\ live.settings["has_organization_projects"] = "false"

\* C12: a CHANGE of a webhook calls update_webhook with the id of the live
\* webhook and with the whole expected webhook; the request is a PATCH of
\* that webhook, so no webhook is created and every live id keeps its url.
C12_WebhookChangeUpdatesLiveId ==
    /\ \A i \in Handled({"handle_modified_webhook"}) :
          /\ Len(patches[i].calls) = 1
          /\ patches[i].calls[1].verb = "update_webhook"
          /\ patches[i].calls[1].webhook_id = patches[i].args.webhook_id
          /\ patches[i].calls[1].webhook = patches[i].args.webhook
          /\ patches[i].args.webhook_id \in DOMAIN LiveAtStart.webhooks
    /\ Handled({"handle_modified_webhook"}) = 1..Len(patches) =>
          /\ \A j \in 1..Len(requests) :
                /\ requests[j].method = "PATCH"
                /\ \E i \in 1..Len(patches) :
                      /\ requests[j].url = _build_url(<<"orgs", "org", "hooks", patches[i].args.webhook_id>>)
                      /\ requests[j].data = json_dumps(patches[i].args.webhook)
          /\ DOMAIN live.webhooks = DOMAIN LiveAtStart.webhooks
          /\ \A id \in DOMAIN live.webhooks :
                live.webhooks[id].config.url = LiveAtStart.webhooks[id].config.url

\* A CHANGE that deactivates webhook "1" was applied to it.
C12_WebhookChangeApplied ==
    /\ Handled({"handle_modified_webhook"}) # {}
    /\ Len(requests) = 1
    /\ live.webhooks["1"].active = "false"
    /\ live.webhooks["1"].config.url = LiveAtStart.webhooks["1"].config.url

ExtraHandlers == {"handle_extra_webhook", "handle_extra_repo", "handle_extra_rule"}

\* C13: the handler of an extra webhook, repository or branch protection
\* rule makes no call on the provider; after a run of extras alone nothing
\* has been sent and the live organization is as it was.
C13_ExtrasNotApplied ==
    /\ \A i \in Handled(ExtraHandlers) : patches[i].calls = <<>>
    /\ Handled(ExtraHandlers) = 1..Len(patches) =>
          /\ provider_calls = <<>>
          /\ requests = <<>>
          /\ live = LiveAtStart

\* The extra webhook was handled, and it is still on GitHub as it was.
C13_ExtraWebhookHandled ==
    /\ \E i \in 1..Len(patches) : patches[i].handler = "handle_extra_webhook"
    /\ live.webhooks["2"] = LiveAtStart.webhooks["2"]
    /\ provider_calls = <<>>

\* The verbs whose first request goes through request_json, and the
\* operation each names in its RuntimeError.
FirstRequestIsJson(call) ==
    \/ call.op \in {"update_org_settings", "update_webhook", "add_webhook", "get_repo_data"}
    \/ call.op = "update_repo" /\ DOMAIN call.args.data \ {"dependabot_alerts_enabled"} # {}

FailedOperation(op) ==
    CASE op = "update_org_settings" -> "failed to update settings for organization"
      [] op = "update_webhook" -> "failed to update webhook"
      [] op = "add_webhook" -> "failed to add webhook with url"
      [] op = "get_repo_data" -> "failed retrieving data for repo"
      [] op = "update_repo" -> "failed to update settings for repo"


\* What request_json does with an error status, and what the verbs do with
\* the GitHubException.
ErrorStatusMapped ==
    /\ (rest_call.op = "request_json" /\ Len(rest_call.served) = 1) =>
        LET response == rest_call.served[1]
            outcome == rest_call.outcome
        IN  response.status_code >= 400 =>
              /\ outcome.raised = IF response.status_code = 401
                                  THEN "BadCredentialsException" ELSE "GitHubException"
              /\ outcome.value.url = _build_url(rest_call.args.url_path)
              /\ outcome.value.status = response.status_code
              /\ outcome.value.data = response.text
    /\ (/\ rest_call.op # "none" /\ FirstRequestIsJson(rest_call)
        /\ Len(rest_call.served) >= 1
        /\ rest_call.served[1].status_code >= 400
        /\ rest_call.served[1].status_code # 401) =>
          /\ Len(rest_call.served) = 1
          /\ rest_call.outcome.raised = "RuntimeError"
          /\ rest_call.outcome.value = FailedOperation(rest_call.op)

\* C14: request_json maps the status of the response to its outcome: 401
\* raises BadCredentialsException, every other status >= 400 raises
\* GitHubException with url, status and body, and every status < 400 returns
\* the parsed body without raising; the verbs of the RestClient turn a
\* GitHubException into a RuntimeError that names the failed operation.
C14_StatusDecidesOutcome ==
    /\ ErrorStatusMapped
    /\ (/\ rest_call.op = "request_json" /\ Len(rest_call.served) = 1
        /\ rest_call.served[1].status_code < 400) =>
          rest_call.outcome.raised = "none"

\* C14 (amended): as C14 for the statuses >= 400; a status < 400 returns the
\* parsed body when the body is a JSON document, and raises the decoding
\* error of response.json() when it is not (the empty body of a 204).
C14_StatusDecidesOutcomeOfJsonBody ==
    /\ ErrorStatusMapped
    /\ (/\ rest_call.op = "request_json" /\ Len(rest_call.served) = 1
        /\ rest_call.served[1].status_code < 400) =>
          LET response == rest_call.served[1]
          IN  IF "json_object" \in DOMAIN response.text
              THEN /\ rest_call.outcome.raised = "none"
                   /\ rest_call.outcome.value = response.text.json_object
              ELSE IF "json_array" \in DOMAIN response.text
              THEN /\ rest_call.outcome.raised = "none"
                   /\ rest_call.outcome.value = response.text.json_array
              ELSE rest_call.outcome.raised = "JSONDecodeError"

\* request_json was answered 204 with an empty body and raised the decode error.
C14_NoContentRaisedDecodeError ==
    /\ rest_call.op = "request_json" /\ Len(rest_call.served) = 1
    /\ rest_call.served[1] = Response(204, EmptyText)
    /\ rest_call.outcome.raised = "JSONDecodeError"

\* C15: a request answered with a transient 5xx is issued again, until a
\* response that is not transient arrives or 5 attempts have been made; only
\* then does the caller see an error (so a 5xx followed by a success yields
\* the success).
C15_TransientRetried ==
    (/\ rest_call.op = "request_json"
     /\ rest_call.outcome.raised \in GitHubExceptions) =>
        \/ rest_call.served[Len(rest_call.served)].status_code < 500
        \/ Len(rest_call.served) = 5

\* C16: get_repos requests the pages 1, 2, 3, ... with per_page=100 and with
\* its type=all as query parameters of every page request, stops at the
\* first empty page and returns the names of the items of the pages before
\* it, in page order.
C16_PagesRequestedWithCallerParams ==
    paging.op = "get_repos" =>
        /\ \A i \in 1..Len(requests) :
              /\ requests[i].params.page = i
              /\ requests[i].params.per_page = "100"
              /\ "type" \in DOMAIN requests[i].params
              /\ requests[i].params.type = "all"
        /\ (rest_call.op = "get_repos" /\ rest_call.outcome.raised = "none") =>
              LET n == Len(paging.served)
              IN  /\ paging.served[n].text.json_array = <<>>
                  /\ \A i \in 1..(n - 1) : paging.served[i].text.json_array # <<>>
                  /\ Len(rest_call.outcome.value) = n - 1
                  /\ \A i \in 1..(n - 1) :
                        rest_call.outcome.value[i] = paging.served[i].text.json_array[1].name

\* The data add_repo reads back after creating the repository from the
\* template: the second response, and the alerts status of the third.
TemplateCurrentData(call) ==
    WithKey(call.served[2].text.json_object, "dependabot_alerts_enabled",
            IF call.served[3].status_code = 204 THEN "true" ELSE "false")

\* The settings whose expected value differs from, or is absent in, current.
Differing(data, current) ==
    {k \in DOMAIN data : k \notin DOMAIN current \/ current[k] # data[k]}

IsRepoPatch(request) ==
    request.method = "PATCH" /\ request.url = _build_url(<<"repos", "org", RepositoryName>>)

IsAlertsUpdate(request) ==
    /\ request.method \in {"PUT", "DELETE"}
    /\ request.url = _build_url(<<"repos", "org", RepositoryName, "vulnerability-alerts">>)

\* The settings a follow-up request carries.
SentSettings(request) ==
    IF IsRepoPatch(request) THEN request.data.json_object
    ELSE [k \in {"dependabot_alerts_enabled"} |->
             IF request.method = "PUT" THEN "true" ELSE "false"]

TemplateAddRepoRead ==
    /\ rest_call.op = "add_repo"
    /\ rest_call.args.template_repository = TemplateRepository
    /\ Len(rest_call.served) >= 3
    /\ rest_call.served[1].status_code < 400
    /\ rest_call.served[2].status_code < 400

\* C17: with a template, add_repo creates the repository through the
\* generate endpoint of the template and never through the create endpoint
\* of the organization; it then reads the data of the created repository and
\* its follow-up update carries only settings whose expected value differs
\* from or is absent in that data, each with its expected value; when the
\* update succeeds it carries all of them (_remove_already_active_settings
\* removes exactly the settings that are already active).
C17_TemplateAddRepo ==
    (rest_call.op = "add_repo" /\ rest_call.args.template_repository = TemplateRepository) =>
        /\ requests[1].method = "POST"
        /\ requests[1].url = _build_url(<<"repos", "otterdog", "template", "generate">>)
        /\ \A i \in 1..Len(requests) :
              ~(requests[i].method = "POST"
                /\ requests[i].url = _build_url(<<"orgs", rest_call.args.org_id, "repos">>))
        /\ TemplateAddRepoRead =>
              LET data == rest_call.args.data
                  differing == Differing(data, TemplateCurrentData(rest_call))
                  sent == {k \in DOMAIN data :
                              \E i \in 4..Len(requests) : k \in DOMAIN SentSettings(requests[i])}
              IN  /\ requests[2].method = "GET" /\ requests[3].method = "GET"
                  /\ \A i \in 4..Len(requests) :
                        /\ IsRepoPatch(requests[i]) \/ IsAlertsUpdate(requests[i])
                        /\ \A k \in DOMAIN SentSettings(requests[i]) :
                              /\ k \in differing
                              /\ SentSettings(requests[i])[k] = data[k]
                  /\ rest_call.outcome.raised = "none" => sent = differing

\* add_repo from a template returned after an update that left out a
\* setting other than the name, because the created repository has it.
C17_TemplateAddRepoSkippedActiveSetting ==
    /\ TemplateAddRepoRead
    /\ rest_call.outcome.raised = "none"
    /\ Len(requests) = 4 /\ IsRepoPatch(requests[4])
    /\ "private" \in DOMAIN rest_call.args.data
    /\ "private" \notin DOMAIN requests[4].data.json_object
    /\ "web_commit_signoff_required" \in DOMAIN requests[4].data.json_object

Executions(type, github_id) ==
    {i \in 1..Len(tasks) :
        tasks[i].type = type /\ tasks[i].org_id = github_id /\ tasks[i].status # "FAILED"}

\* C18: a task scheduled while a task of the same identity is still running
\* is not executed again; in particular the installation events handled
\* while an organization has no stored configuration lead to one execution
\* of FetchConfigTask and one of FetchAllPullRequestsTask for it (a stored
\* configuration is never removed, so every execution counted here was
\* scheduled while there was none; executions that failed are not counted).
C18_OneExecutionPerIdentity ==
    \A github_id \in GithubIds : \A type \in {"FetchConfigTask", "FetchAllPullRequestsTask"} :
        Cardinality(Executions(type, github_id)) <= 1

Installed(collection, github_id) ==
    /\ github_id \in DOMAIN collection
    /\ collection[github_id].installation_status = "INSTALLED"

AddedTask(before, after, type, github_id) ==
    \E i \in (Len(before) + 1)..Len(after) :
        after[i].type = type /\ after[i].org_id = github_id

\* C19: whenever the installation of an organization becomes INSTALLED, by a
\* 'created' or by an 'unsuspend' event, the handler that makes it so
\* schedules a FetchConfigTask and a FetchAllPullRequestsTask for that
\* organization (stated for a configured organization whose configuration
\* is not stored yet, the case in which update_installations schedules).
C19_InstalledSchedulesFetch ==
    [][\A github_id \in GithubIds :
          (/\ get_project_name(github_id) # "null" /\ github_id \notin configurations
           /\ ~Installed(installations, github_id) /\ Installed(installations', github_id))
              => /\ AddedTask(background_tasks, background_tasks', "FetchConfigTask", github_id)
                 /\ AddedTask(background_tasks, background_tasks', "FetchAllPullRequestsTask", github_id)]_vars

Count(seq, x) == Cardinality({i \in 1..Len(seq) : seq[i] = x})

\* _execute has returned its result.
ValidationExecuted == validation.result.plan_output # "null"

Before(seq, x, y) ==
    /\ Count(seq, x) = 1 /\ Count(seq, y) = 1
    /\ Position(seq, x) < Position(seq, y)

CommentOnPlan ==
    /\ Len(validation.comments) = 1
    /\ validation.comments[1].result = escape_for_github(validation.result.plan_output)
    /\ validation.comments[1].org_id = validation.task.org_id
    /\ validation.comments[1].number = pull_request_number(validation.task)

OneCheckScheduled ==
    /\ Count(validation.trace, "add_background_task") = 1
    /\ Cardinality({i \in 1..Len(background_tasks) :
                       /\ background_tasks[i].type = "CheckConfigurationInSyncTask"
                       /\ background_tasks[i].org_id = validation.task.org_id
                       /\ background_tasks[i].repo_name = validation.task.repo_name
                       /\ background_tasks[i].pull_request = pull_request_number(validation.task)}) = 1

FetchedBeforeComment ==
    /\ Before(validation.trace, "fetch_config_from_github:BASE", "fetch_config_from_github:HEAD")
    /\ Before(validation.trace, "fetch_config_from_github:HEAD", "create_comment")

PlannedBeforeComment ==
    /\ Before(validation.trace, "fetch_config_from_github:HEAD", "LocalPlanOperation.execute")
    /\ Before(validation.trace, "LocalPlanOperation.execute", "create_comment")

\* C20 as stated: every execution of ValidatePullRequestTask whose _execute
\* returns has fetched BASE, then HEAD, has run local-plan between them, has
\* posted one comment with the plan output after that, and has scheduled one
\* CheckConfigurationInSyncTask for the pull request.
C20_ValidationRunsLocalPlan ==
    ValidationExecuted =>
        FetchedBeforeComment /\ PlannedBeforeComment /\ CommentOnPlan /\ OneCheckScheduled

\* C20 amended: as stated when the two configurations differ; when they are
\* identical local-plan is not run and the comment carries "No changes.".
C20_ValidationPlansDifferingConfigs ==
    ValidationExecuted =>
        /\ FetchedBeforeComment /\ CommentOnPlan /\ OneCheckScheduled
        /\ IF validation.base_text = validation.head_text
           THEN /\ Count(validation.trace, "LocalPlanOperation.execute") = 0
                /\ validation.result.plan_output = "No changes."
           ELSE /\ PlannedBeforeComment
                /\ \E plan \in LocalPlanResults : validation.result.plan_output = plan.output

\* _execute returned for identical configurations and posted its comment.
C20_ValidatedIdenticalConfigs ==
    /\ ValidationExecuted
    /\ validation.base_text = validation.head_text
    /\ Len(validation.comments) = 1

\* The stored PullRequestModels of the validated pull request.
ValidatedModels(collection) ==
    {m \in collection :
        /\ m.org_id = validation.task.org_id /\ m.repo_name = validation.task.repo_name
        /\ m.pull_request = pull_request_number(validation.task)}

\* C21: after an execution of ValidatePullRequestTask whose _execute did not
\* raise, the stored PullRequestModel of the pull request has valid = the
\* validation succeeded (true for identical configurations) and
\* requires_manual_apply = a patch requires secrets, with in_sync and
\* apply_status as before; after an execution that raised, the collection
\* is as it was.
C21_ValidationStored ==
    validation.pc = "post_executed" =>
        IF validation.raised = "none"
        THEN /\ \E m \in ValidatedModels(pull_requests) :
                    /\ m.valid = validation.result.validation_success
                    /\ m.requires_manual_apply = validation.result.requires_secrets
                    /\ \A b \in ValidatedModels(validation.stored) :
                          m.in_sync = b.in_sync /\ m.apply_status = b.apply_status
             /\ validation.base_text = validation.head_text =>
                    /\ validation.result.validation_success = "true"
                    /\ validation.result.requires_secrets = "false"
        ELSE pull_requests = validation.stored

\* C22: when the execution of the task raised, the task is stored as FAILED
\* with the text of the exception as its log, and a comment about the
\* failure has been posted on the pull request.
C22_FailureSurfacedAsComment ==
    (validation.pc = "post_executed" /\ validation.raised # "none") =>
        /\ tasks[Len(tasks)].status = "FAILED"
        /\ tasks[Len(tasks)].log = validation.raised
        /\ Len(validation.comments) >= 1

StatusCalls ==
    {"create_commit_status:pending", "create_commit_status:success",
     "create_commit_status:error", "create_commit_status:failure"}

IsStatusCall(step) == step \in StatusCalls

\* The terminal status the outcome of _execute calls for.
TerminalStatus ==
    IF validation.raised # "none" THEN "create_commit_status:failure"
    ELSE IF validation.result.validation_success = "true"
         THEN "create_commit_status:success"
         ELSE "create_commit_status:error"

\* C28: the statuses created on the head commit are 'pending', before the
\* first configuration is fetched, and after _post_execute exactly one
\* terminal status following it: 'success' for a validation that succeeded,
\* 'error' for a plan that failed, 'failure' for an execution that raised;
\* no 'pending' follows a terminal status.
C28_CommitStatusProtocol ==
    LET statuses == SelectSeq(validation.trace, IsStatusCall)
    IN  /\ validation.pc \in {"pre_executed", "executed", "raised"} =>
              statuses = <<"create_commit_status:pending">>
        /\ Count(validation.trace, "fetch_config_from_github:BASE") = 1 =>
              Position(validation.trace, "create_commit_status:pending")
                  < Position(validation.trace, "fetch_config_from_github:BASE")
        /\ validation.pc = "post_executed" =>
              statuses = <<"create_commit_status:pending", TerminalStatus>>

\* A validation whose plan failed has set the error status.
C28_ErrorStatusSet ==
    /\ validation.pc = "post_executed"
    /\ validation.raised = "none"
    /\ validation.result.validation_success = "false"
    /\ validation.trace[Len(validation.trace) - 1] = "create_commit_status:error"

StoredFor(collection, number) ==
    {m \in collection :
        /\ m.org_id = fetch_all.task.org_id /\ m.repo_name = fetch_all.task.repo_name
        /\ m.pull_request = number}

\* C23: a pull request stored as MERGED with apply_status COMPLETED is not
\* matched by the open-or-incomplete query and is matched by the merged
\* query; no document is matched by both; and once FetchAllPullRequestsTask
\* has run, every merged pull request of the list is stored as MERGED with
\* apply_status COMPLETED, while a pull request of the list that is not
\* merged keeps the apply_status it was stored with.
C23_AtMostOnceApply ==
    /\ \A m \in pull_requests :
          /\ (m.status = "MERGED" /\ m.apply_status = "COMPLETED") =>
                ~_open_or_incomplete_pull_requests_query(m) /\ _merged_pull_requests_query(m)
          /\ ~(_open_or_incomplete_pull_requests_query(m) /\ _merged_pull_requests_query(m))
    /\ fetch_all.pc = "done" =>
          \A i \in 1..Len(fetch_all.all_pull_requests) :
              LET pr == fetch_all.all_pull_requests[i]
              IN  IF get_pr_status(pr) = Returned("merged")
                  THEN \E m \in StoredFor(pull_requests, pr.number) :
                           m.status = "MERGED" /\ m.apply_status = "COMPLETED"
                  ELSE \A m \in StoredFor(pull_requests, pr.number) :
                           \A b \in StoredFor(fetch_all.stored, pr.number) :
                               m.apply_status = b.apply_status

ImportPrompts == cli.at_start # "absent" /\ cli.force_processing = "false"

\* C24: the value returned is 3 for an import cancelled at the overwrite
\* prompt, 1 for an import whose credentials do not resolve, 1 for a
\* canonical-diff whose file is missing or fails to load and 0 for any other
\* canonical-diff, and 0 for an import or fetch that succeeds.
C24_ExitCodes ==
    cli.pc = "done" =>
        /\ (cli.operation = "import" /\ ImportPrompts /\ cli.answer # "yes") => cli.returned = "3"
        /\ (/\ cli.operation = "import" /\ ~(ImportPrompts /\ cli.answer # "yes")
            /\ cli.credentials = "RuntimeError") => cli.returned = "1"
        /\ cli.operation = "canonical-diff" =>
              cli.returned = IF cli.at_start = "absent" \/ cli.load_from_file = "RuntimeError"
                             THEN "1" ELSE "0"
        /\ (/\ cli.operation \in {"import", "fetch"} /\ cli.raised = "none"
            /\ cli.calls = <<"get_credentials", "load_from_github">>) => cli.returned = "0"

\* C25: import prompts exactly when the file exists and force is not set;
\* after a prompt answered with anything but 'yes' no provider call has been
\* made and the file is as it was; the file is rewritten only without a
\* prompt or after the answer 'yes'.
C25_ImportOverwritesOnlyWithConsent ==
    (cli.operation = "import" /\ cli.pc = "done") =>
        /\ cli.prompted = (IF ImportPrompts THEN "true" ELSE "false")
        /\ (ImportPrompts /\ cli.answer # "yes") =>
              cli.calls = <<>> /\ cli.file = cli.at_start
        /\ (cli.calls # <<>> \/ cli.file # cli.at_start) =>
              ~ImportPrompts \/ cli.answer = "yes"

\* An import over an existing file was answered 'Yes' and left the file alone.
C25_ImportDeclined ==
    /\ cli.operation = "import" /\ cli.pc = "done"
    /\ cli.at_start = "definition" /\ cli.prompted = "true" /\ cli.answer = "Yes"
    /\ cli.file = "definition" /\ cli.calls = <<>>

\* The settings with 'True' and 'False' replaced by the booleans.
AsBooleans(settings) ==
    [k \in DOMAIN settings |->
        IF settings[k] = [str |-> "True"] THEN [bool |-> "true"]
        ELSE IF settings[k] = [str |-> "False"] THEN [bool |-> "false"]
        ELSE settings[k]]

\* C26: _update_settings performs the same page actions for the strings
\* 'True' and 'False' as for the booleans True and False: set_checked with
\* the boolean, then the save button clicked as trial and then live.
C26_StringAndBooleanEquivalent ==
    web_page.pc = "updated" =>
        web_page.actions = _update_settings("org", AsBooleans(web_page.settings),
                                            web_settings_definition, web_page.not_ok)

\* C27: a suspend event sets the stored installation with the id of the
\* event to SUSPENDED and an unsuspend event sets it to INSTALLED, and every
\* other installation is as before; an event for an id that is not stored,
\* or with another action, leaves the collection as it was.
C27_StatusEvents ==
    installation_event.action # "none" =>
        LET before == installation_event.before
            status == IF installation_event.action = "suspend" THEN "SUSPENDED" ELSE "INSTALLED"
        IN  /\ DOMAIN installations = DOMAIN before
            /\ \A g \in DOMAIN before :
                  IF /\ before[g].installation_id = installation_event.installation_id
                     /\ installation_event.action \in {"suspend", "unsuspend"}
                  THEN installations[g] = [before[g] EXCEPT !.installation_status = status]
                  ELSE installations[g] = before[g]

\* org-a was suspended while org-x stayed INSTALLED.
C27_SuspendedOne ==
    /\ installation_event.action = "suspend" /\ installation_event.installation_id = 1
    /\ "org-a" \in DOMAIN installations /\ "org-x" \in DOMAIN installations
    /\ installation_event.before["org-a"].installation_status = "INSTALLED"
    /\ installations["org-a"].installation_status = "SUSPENDED"
    /\ installations["org-x"].installation_status = "INSTALLED"

\* C29: when both tasks have called update_or_create_pull_request for a pull
\* request with a valid state, exactly one PullRequestModel is stored for it,
\* and it carries valid and requires_manual_apply of the validation and
\* in_sync of the sync check.
C29_OneRecordWithBothCallsFields ==
    (/\ callers # <<>>
     /\ \A i \in DOMAIN callers : callers[i].pc # "pending"
     /\ MappedStatus(callers[1].pr) # "invalid")
    => LET stored == find_pull_request("org", ".otterdog", callers[1].pr.number)
       IN  /\ Cardinality(stored) = 1
           /\ \A m \in stored :
                 /\ m.valid = callers[1].valid
                 /\ m.requires_manual_apply = callers[1].requires_manual_apply
                 /\ m.in_sync = callers[2].in_sync

\* The requests that add (PUT) or remove (DELETE) a security manager team.
TeamRequests(method) ==
    {i \in 1..Len(requests) : requests[i].method = method /\ Len(requests[i].url) = 6}

\* The security manager teams of the organization after the requests sent.
RECURSIVE ManagersAfter(_, _)
ManagersAfter(managers, sent) ==
    IF sent = <<>> THEN managers
    ELSE IF Head(sent).method = "PUT" /\ Len(Head(sent).url) = 6
    THEN ManagersAfter(managers \cup {Head(sent).url[6]}, Tail(sent))
    ELSE IF Head(sent).method = "DELETE" /\ Len(Head(sent).url) = 6
    THEN ManagersAfter(managers \ {Head(sent).url[6]}, Tail(sent))
    ELSE ManagersAfter(managers, Tail(sent))

\* C30: after update_security_managers, the security manager teams of the
\* organization are the requested ones; only teams that were not managers
\* were added, only teams that are not requested were removed, and no team
\* was added or removed twice.
C30_SecurityManagersReconciled ==
    rest_call.op = "update_org_settings" /\ rest_call.outcome.raised = "none" =>
        LET listed == rest_call.served[2].text.json_array
            current_managers == {listed[i].slug : i \in 1..Len(listed)}
            security_managers == rest_call.args.data.security_managers
            requested == {security_managers[i] : i \in 1..Len(security_managers)}
        IN  /\ ManagersAfter(current_managers, requests) = requested
            /\ \A i \in TeamRequests("PUT") : requests[i].url[6] \notin current_managers
            /\ \A i \in TeamRequests("DELETE") : requests[i].url[6] \notin requested
            /\ \A m \in {"PUT", "DELETE"} : \A i, j \in TeamRequests(m) :
                  requests[i].url[6] = requests[j].url[6] => i = j

====
